---------------------------- MODULE Spec2Model ----------------------------
(***************************************************************************)
(* A model of the resume-tailoring backend (backend/app): the one-page     *)
(* fitting loop and its shaping passes (main.py), the pure shaping         *)
(* functions (sanitize, merge, compress), and the per-user workspace store *)
(* with its revision counter (routers/workspace.py, routers/patch.py,      *)
(* routers/versions.py).                                                   *)
(*                                                                         *)
(* Python values are modelled as follows.                                  *)
(*   str   a sequence of characters; a character is a one-character TLA+   *)
(*         string, or a named token for a non-ASCII character              *)
(*         ("<ellipsis>" is U+2026, "<emdash>" U+2014, ...).               *)
(*   list  a sequence.                                                     *)
(*   dict  a function from keys (TLA+ strings) to values.                  *)
(* The empty str and the empty list are both << >>.                        *)
(***************************************************************************)
EXTENDS Integers, Sequences, FiniteSets, TLC

VARIABLES
    \* --- render_and_compile_one_page (main.py) ---
    fpc,        \* position in the fit loop
    fdata,      \* the record handed to render_and_compile_one_page
    fworking,   \* local `working`
    fpass,      \* pass_no of the standard loop (1..4), 5 once the loop is left
    fultra,     \* iteration of the ultra-squeeze loop (0 = not entered)
    ftex,       \* the record last rendered into tex_str
    fpdf,       \* result of the last _compile_with_page_count call
    fcompiles,  \* number of _compile_with_page_count calls made
    fruns,      \* number of pdflatex processes run
    fmeasured,  \* page counts measured so far, in order
    fshrinks,   \* reductions applied so far, in order (1..4, 5 = ultra squeeze)
    fret,       \* what the call returned or raised
    \* --- pure shaping functions (main.py) ---
    ppc,        \* which stage of the pure-function harness has run
    pin,        \* the drawn input(s)
    pout,       \* the computed results
    \* --- the workspace store of one user (routers/workspace.py, patch.py, versions.py) ---
    wdata,      \* current.json: << >> when the file does not exist, else <<document>>
    wmeta,      \* current.meta.json: << >> or <<[rev, selectedVersionId, autosaveMode]>>
    wvfiles,    \* <vid>.json for every version id: << >> or <<document>>
    widx,       \* index.json: the version ids of its rows, newest first
    wpc,        \* per request thread: the statement it is at
    wloc,       \* per request thread: the locals of its handler
    wresp,      \* the response sent last
    wstarted    \* number of requests begun

fitvars  == <<fpc, fdata, fworking, fpass, fultra, ftex, fpdf, fcompiles, fruns,
              fmeasured, fshrinks, fret>>
purevars == <<ppc, pin, pout>>
wsvars   == <<wdata, wmeta, wvfiles, widx, wpc, wloc, wresp, wstarted>>
vars     == <<fitvars, purevars, wsvars>>

-----------------------------------------------------------------------------
(* Small arithmetic and sequence helpers *)

\* F(v) with v evaluated once and named, as a local variable of the code is
Bind(v, F(_)) == CHOOSE r \in {F(x) : x \in {v}} : TRUE
Bind2(v, w, F(_, _)) == CHOOSE r \in {F(x, y) : x \in {v}, y \in {w}} : TRUE

Min2(a, b) == IF a <= b THEN a ELSE b
Max2(a, b) == IF a >= b THEN a ELSE b
SetMin(S) == Bind(S, LAMBDA T : CHOOSE x \in T : \A y \in T : x <= y)
SetMax(S) == Bind(S, LAMBDA T : CHOOSE x \in T : \A y \in T : x >= y)

\* Python slice xs[:n] for n >= 0
Take(xs, n) == SubSeq(xs, 1, Min2(n, Len(xs)))
\* Python slice xs[n:] for n >= 0
DropFirst(xs, n) == SubSeq(xs, n + 1, Len(xs))

Rep(c, n) == [i \in 1..n |-> c]

RECURSIVE SumSeq(_)
SumSeq(ns) == IF ns = << >> THEN 0 ELSE Head(ns) + SumSeq(Tail(ns))

-----------------------------------------------------------------------------
(* dict helpers *)

Has(d, k) == k \in DOMAIN d
\* d.get(k) followed by `or ""`, `or []` or ensure_text: a missing key reads as empty
Get(d, k) == IF k \in DOMAIN d THEN d[k] ELSE << >>
\* d[k] = v
Put(d, k, v) == [x \in (DOMAIN d) \cup {k} |-> IF x = k THEN v ELSE d[x]]
\* d.pop(k, None)
Pop(d, k) == [x \in (DOMAIN d) \ {k} |-> d[x]]
\* d.setdefault(k, v)
SetDefault(d, k, v) == IF k \in DOMAIN d THEN d ELSE Put(d, k, v)
EmptyDict == [x \in {} |-> << >>]
\* d.update(upd)
Override(d, upd) ==
    [x \in (DOMAIN d) \cup (DOMAIN upd) |-> IF x \in DOMAIN upd THEN upd[x] ELSE d[x]]

-----------------------------------------------------------------------------
(* str helpers *)

Ellipsis == "<ellipsis>"   \* U+2026
EmDash   == "<emdash>"     \* U+2014
EnDash   == "<endash>"     \* U+2013
Bullet   == "<bullet>"     \* U+2022
WS == {" ", "\t", "\n"}
IsWS(c) == c \in WS

UpperCase == <<"A","B","C","D","E","F","G","H","I","J","K","L","M",
               "N","O","P","Q","R","S","T","U","V","W","X","Y","Z">>
LowerCase == <<"a","b","c","d","e","f","g","h","i","j","k","l","m",
               "n","o","p","q","r","s","t","u","v","w","x","y","z">>
LowerChar(c) ==
    IF \E i \in 1..Len(UpperCase) : UpperCase[i] = c
    THEN LowerCase[CHOOSE i \in 1..Len(UpperCase) : UpperCase[i] = c]
    ELSE c
\* str.lower()
Lower(s) == [i \in 1..Len(s) |-> LowerChar(s[i])]

\* the positions of s that hold no whitespace
InkPositions(s) == {i \in 1..Len(s) : ~IsWS(s[i])}
\* str.strip()
Strip(s) ==
    Bind(s, LAMBDA z : Bind(InkPositions(z),
            LAMBDA idx : IF idx = {} THEN << >> ELSE SubSeq(z, SetMin(idx), SetMax(idx))))
\* str.rstrip()
RStrip(s) ==
    Bind(s, LAMBDA z : Bind(InkPositions(z),
            LAMBDA idx : IF idx = {} THEN << >> ELSE SubSeq(z, 1, SetMax(idx))))

\* the positions of s that stay when every run of whitespace is cut to its first character
RunStarts(s) ==
    SelectSeq([i \in 1..Len(s) |-> i],
              LAMBDA i : ~IsWS(s[i]) \/ i = 1 \/ ~IsWS(s[i - 1]))
\* re.sub(r"\s+", " ", s): every maximal run of whitespace becomes one space
CollapseWS(s) ==
    Bind(s, LAMBDA z : Bind(RunStarts(z),
            LAMBDA keep : [j \in 1..Len(keep) |->
                              IF IsWS(z[keep[j]]) THEN " " ELSE z[keep[j]]]))

\* shorten_text(t, max_chars), on the collapsed and stripped text
shorten_stripped(s, max_chars) ==
    IF Len(s) <= max_chars
    THEN s
    ELSE RStrip(SubSeq(s, 1, max_chars - 1)) \o <<Ellipsis>>
\* shorten_text(t, max_chars)
shorten_text(t, max_chars) ==
    Bind2(Strip(CollapseWS(t)), max_chars, shorten_stripped)

NoneLike == { <<"n","o","n","e">>, <<"n","u","l","l">>, <<"n","/","a">>,
              <<"-">>, <<EmDash>> }
\* _clean_none(x)
clean_none(x) == IF Lower(Strip(x)) \in NoneLike THEN << >> ELSE Strip(x)

\* limit_bullets without its cap and its filter: every item is kept as it is
limit_bullets_uncapped(items, max_n) == items

\* limit_bullets(items, max_n)
RECURSIVE limit_bullets_from(_, _, _)
limit_bullets_from(items, max_n, out) ==
    IF items = << >> THEN out
    ELSE LET s    == Strip(Head(items))
             out2 == IF s # << >> THEN Append(out, s) ELSE out
         IN  IF Len(out2) >= max_n THEN out2
             ELSE limit_bullets_from(Tail(items), max_n, out2)
limit_bullets(items, max_n) ==
    IF items = << >> THEN << >> ELSE limit_bullets_from(items, max_n, << >>)

-----------------------------------------------------------------------------
(* Section order and the reductions of the fit loop (main.py) *)

WANTED_SECTION_ORDER == <<"summary", "education", "projects", "skills", "certifications">>

\* enforce_section_order that leaves a section_order it finds in the record alone
section_order_kept(d) ==
    [k \in ((DOMAIN d) \ {"experience", "publications"})
           \cup {"show_summary", "summary", "education", "projects", "skills",
                 "certifications", "section_order"} |->
        CASE k = "show_summary"  -> Get(d, "summary") # << >>
          [] k \in DOMAIN d      -> d[k]
          [] k = "section_order" -> WANTED_SECTION_ORDER
          [] OTHER               -> << >>]

\* enforce_section_order(data), on the evaluated dict: "experience" and "publications"
\* popped, show_summary set, the five sections present, section_order set
section_ordered(d) ==
    [k \in ((DOMAIN d) \ {"experience", "publications"})
           \cup {"show_summary", "summary", "education", "projects", "skills",
                 "certifications", "section_order"} |->
        CASE k = "show_summary"  -> Get(d, "summary") # << >>
          [] k = "section_order" -> WANTED_SECTION_ORDER
          [] k \in DOMAIN d      -> d[k]
          [] OTHER               -> << >>]
\* enforce_section_order(data)
enforce_section_order(data) == Bind(data, section_ordered)

\* cap_bullets(container_key, n), local to _apply_shrink_pass
cap_bullets(d, container_key, n) ==
    IF ~Has(d, container_key) THEN d
    ELSE Put(d, container_key,
             [i \in 1..Len(d[container_key]) |->
                 Put(d[container_key][i], "bullets",
                     Take(Get(d[container_key][i], "bullets"), Max2(0, n)))])

\* shorten_summaries(limit_exp, limit_proj), local to _apply_shrink_pass
shorten_in(d, key, limit) ==
    IF ~Has(d, key) THEN d
    ELSE Put(d, key,
             [i \in 1..Len(d[key]) |->
                 Put(d[key][i], "summary", shorten_text(Get(d[key][i], "summary"), limit))])
shorten_summaries(d, limit_exp, limit_proj) ==
    shorten_in(shorten_in(d, "experience", limit_exp), "projects", limit_proj)

\* d[key] = (d.get(key) or [])[:n]
cap_list(d, key, n) == Put(d, key, Take(Get(d, key), n))

\* _apply_shrink_pass(data, pass_no): the statements of each pass, in order
apply_shrink_pass(data, pass_no) ==
    IF pass_no = 1 THEN
        Bind(Bind(Bind(Bind(Bind(data,
            LAMBDA d : cap_bullets(d, "experience", 2)),
            LAMBDA d : cap_bullets(d, "projects", 2)),
            LAMBDA d : shorten_summaries(d, 180, 160)),
            LAMBDA d : cap_list(d, "skills", 10)),
            LAMBDA d : cap_list(d, "certifications", 3))
    ELSE IF pass_no = 2 THEN
        Bind(Bind(Bind(Bind(Bind(Bind(Bind(Bind(data,
            LAMBDA d : cap_bullets(d, "experience", 2)),
            LAMBDA d : cap_bullets(d, "projects", 2)),
            LAMBDA d : shorten_summaries(d, 160, 140)),
            LAMBDA d : cap_list(d, "experience", 2)),
            LAMBDA d : cap_list(d, "projects", 1)),
            LAMBDA d : cap_list(d, "education", 1)),
            LAMBDA d : cap_list(d, "certifications", 2)),
            LAMBDA d : cap_list(d, "skills", 9))
    ELSE IF pass_no = 3 THEN
        Bind(Bind(Bind(Bind(Bind(Bind(Bind(Bind(Bind(Bind(data,
            LAMBDA d : cap_bullets(d, "experience", 2)),
            LAMBDA d : cap_bullets(d, "projects", 1)),
            LAMBDA d : shorten_summaries(d, 140, 120)),
            LAMBDA d : Put(d, "show_summary", FALSE)),
            LAMBDA d : Put(d, "certifications", << >>)),
            LAMBDA d : Put(d, "publications", << >>)),
            LAMBDA d : cap_list(d, "projects", 1)),
            LAMBDA d : cap_list(d, "experience", 2)),
            LAMBDA d : cap_list(d, "education", 1)),
            LAMBDA d : cap_list(d, "skills", 8))
    ELSE
        Bind(Bind(Bind(Bind(Bind(Bind(Bind(Bind(Bind(Bind(data,
            LAMBDA d : cap_bullets(d, "experience", 1)),
            LAMBDA d : cap_bullets(d, "projects", 1)),
            LAMBDA d : shorten_summaries(d, 120, 100)),
            LAMBDA d : cap_list(d, "projects", 1)),
            LAMBDA d : cap_list(d, "experience", 2)),
            LAMBDA d : cap_list(d, "education", 1)),
            LAMBDA d : cap_list(d, "skills", 6)),
            LAMBDA d : Put(d, "certifications", << >>)),
            LAMBDA d : Put(d, "publications", << >>)),
            LAMBDA d : Put(d, "show_summary", FALSE))

\* the education / projects / certifications loops of _ultra_squeeze_to_one_page
squeeze_edu(e) ==
    LET det == Take(Get(e, "details"), 1)
    IN  Put(e, "details", IF det # << >> THEN <<shorten_text(det[1], 90)>> ELSE det)
squeeze_proj(p) ==
    LET p1  == Put(p, "summary", shorten_text(Get(p, "summary"), 90))
        bul == Take(Get(p1, "bullets"), 1)
    IN  Put(p1, "bullets", IF bul # << >> THEN <<shorten_text(bul[1], 90)>> ELSE bul)
squeeze_cert(c) ==
    [name        |-> shorten_text(Get(c, "name"), 50),
     issuer      |-> shorten_text(Get(c, "issuer"), 40),
     date        |-> Take(Get(c, "date"), 4),
     link        |-> Get(c, "link"),
     description |-> << >>]
trim_row(d, key) == IF Has(d, key) THEN Put(d, key, Take(d[key], 70)) ELSE d

\* variant: the summary is cut to half its length
squeeze_summary_halved(d) ==
    Override(d, [summary      |-> Take(Get(d, "summary"), Len(Get(d, "summary")) \div 2),
                 show_summary |-> (Len(Get(d, "summary")) \div 2 > 0)])
\* the statements of _ultra_squeeze_to_one_page after d = enforce_section_order(...)
squeeze_summary(d) ==
    Override(d, [summary      |-> shorten_text(Get(d, "summary"), 110),
                 show_summary |-> (shorten_text(Get(d, "summary"), 110) # << >>)])
squeeze_sections(d) ==
    Override(d,
      [education      |-> [i \in 1..Len(Take(Get(d, "education"), 1)) |->
                              squeeze_edu(Get(d, "education")[i])],
       projects       |-> [i \in 1..Len(Take(Get(d, "projects"), 1)) |->
                              squeeze_proj(Get(d, "projects")[i])],
       skills         |-> Take(Get(d, "skills"), 6),
       certifications |-> [i \in 1..Len(Take(Get(d, "certifications"), 2)) |->
                              squeeze_cert(Get(d, "certifications")[i])]])

\* _ultra_squeeze_to_one_page(data)
ultra_squeeze_to_one_page(data) ==
    Bind(Bind(Bind(Bind(Bind(enforce_section_order(data),
        squeeze_summary),
        squeeze_sections),
        LAMBDA d : trim_row(d, "skills_row1")),
        LAMBDA d : trim_row(d, "skills_row2")),
        LAMBDA d : trim_row(d, "skills_row3"))

-----------------------------------------------------------------------------
(* The typesetting engine and the fit loop (main.py) *)

\* bounds of the fit-loop model
MaxPages    == 2     \* largest page count the engine reports
MaxFitItems == 2     \* entries per list in the records handed to the loop
MaxCompiles == 9     \* cap of the compile counter

StdPasses  == 4      \* for pass_no in (1, 2, 3, 4)
UltraIters == 3      \* for _ in range(3)

\* What one _compile_with_page_count call can meet:
\*   engine_missing  subprocess.run raises FileNotFoundError
\*   exit_nonzero_1  the first pdflatex run exits non-zero
\*   exit_nonzero_2  the second pdflatex run exits non-zero
\*   no_pdf          both runs exit 0 and resume.pdf does not exist
\*   ok              both runs exit 0 and resume.pdf exists
CompileOutcomes == {"engine_missing", "exit_nonzero_1", "exit_nonzero_2", "no_pdf", "ok"}
\* The "(N pages)" note of the last stdout: <<N>>, or << >> when the pattern finds nothing
StdoutCounts == {<< >>} \cup {<<n>> : n \in 0..MaxPages}

RunsOf(o) ==
    CASE o = "engine_missing" -> 0
      [] o = "exit_nonzero_1" -> 1
      [] OTHER                -> 2

\* pages = int(m.group(1)) if m else 1
pages_of(m) == IF m # << >> THEN m[1] ELSE 1

\* _compile_with_page_count(tex_str): the value returned or the exception raised
compile_with_page_count(o, m) ==
    CASE o = "engine_missing" ->
            [ok |-> FALSE, exc |-> "HTTPException", status |-> 500,
             detail |-> "pdflatex is not installed or not in PATH"]
      [] o \in {"exit_nonzero_1", "exit_nonzero_2"} ->
            [ok |-> FALSE, exc |-> "RuntimeError", status |-> 0,
             detail |-> "LaTeX compilation failed"]
      [] o = "no_pdf" ->
            [ok |-> FALSE, exc |-> "RuntimeError", status |-> 0,
             detail |-> "LaTeX did not produce resume.pdf"]
      [] OTHER ->
            [ok |-> TRUE, reported |-> m, pages |-> pages_of(m)]

\* a two-page document taken as fitting
FitsTwoPages(pages) == pages <= 2
\* if pages <= 1: return pdf_bytes
Fits(pages) == pages <= 1

NoPdf  == [n |-> 0, reported |-> << >>, pages |-> 0, of |-> EmptyDict]
NoRet  == [kind |-> "none"]
FitFailure ==
    [kind |-> "raise", exc |-> "HTTPException", status |-> 400,
     detail |-> "Content could not be constrained to one page."]
TemplateFailure ==
    [kind |-> "raise", exc |-> "HTTPException", status |-> 400,
     detail |-> "Template syntax error"]

\* records handed to render_and_compile_one_page
FitWord(c, n) == Rep(c, n)
FitProject(i) ==
    [name |-> <<"p", "0">>, tech |-> << >>, link |-> << >>,
     summary |-> FitWord("s", 95), start_date |-> << >>, end_date |-> << >>,
     bullets |-> [j \in 1..3 |-> FitWord("b", 93)]]
FitEducation(i) ==
    [degree |-> <<"d">>, institution |-> <<"u">>, location |-> << >>,
     graduation_year |-> <<"2","0","2","0">>,
     details |-> [j \in 1..2 |-> FitWord("c", 91)]]
FitCert(i) ==
    [name |-> FitWord("n", 52), issuer |-> <<"i">>, date |-> <<"2","0","2","1">>,
     link |-> << >>, description |-> <<"x">>]
FitRecord(sumLen, n) ==
    [first_name |-> <<"f">>, last_name |-> <<"l">>,
     summary |-> FitWord("w", sumLen),
     show_summary |-> (sumLen > 0),
     skills |-> [i \in 1..(5 * n) |-> <<"k">>],
     skills_row1 |-> FitWord("r", 72 * Min2(n, 1)),
     experience |-> [i \in 1..n |->
                       [title |-> <<"t">>, company |-> <<"c">>, location |-> << >>,
                        start_date |-> << >>, end_date |-> << >>, summary |-> << >>,
                        bullets |-> <<FitWord("b", 5)>>]],
     projects |-> [i \in 1..n |-> FitProject(i)],
     education |-> [i \in 1..n |-> FitEducation(i)],
     certifications |-> [i \in 1..(2 * n) |-> FitCert(i)],
     publications |-> [i \in 1..n |-> <<"q">>]]
FitInputs == {FitRecord(sl, n) : sl \in {0, 112}, n \in 0..MaxFitItems}

FitTerminal == {"accepted", "rejected", "failed"}

PureOff == ppc = "off" /\ pin = EmptyDict /\ pout = EmptyDict
\* no workspace request is made
WsOff ==
    /\ wdata = << >> /\ wmeta = << >> /\ wvfiles = EmptyDict /\ widx = << >>
    /\ wpc = EmptyDict /\ wloc = EmptyDict /\ wresp = EmptyDict
    /\ wstarted = 0

InitFit ==
    /\ fpc = "start"
    /\ fdata \in FitInputs
    /\ fworking = EmptyDict
    /\ fpass = 0
    /\ fultra = 0
    /\ ftex = EmptyDict
    /\ fpdf = NoPdf
    /\ fcompiles = 0
    /\ fruns = 0
    /\ fmeasured = << >>
    /\ fshrinks = << >>
    /\ fret = NoRet
    /\ PureOff
    /\ WsOff

\* env.get_template, then working = enforce_section_order(dict(data))
FitStart ==
    /\ fpc = "start"
    /\ \E template_ok \in BOOLEAN :
          IF template_ok
          THEN /\ fworking' = enforce_section_order(fdata)
               /\ fpass' = 1
               /\ fpc' = "render"
               /\ fret' = fret
          ELSE /\ fret' = TemplateFailure
               /\ fpc' = "failed"
               /\ UNCHANGED <<fworking, fpass>>
    /\ UNCHANGED <<fdata, fultra, ftex, fpdf, fcompiles, fruns, fmeasured, fshrinks>>
    /\ UNCHANGED <<purevars, wsvars>>

\* tex_str = template.render(resume=working)
FitRender ==
    /\ fpc = "render"
    /\ ftex' = fworking
    /\ fpc' = "compile"
    /\ UNCHANGED <<fdata, fworking, fpass, fultra, fpdf, fcompiles, fruns, fmeasured,
                   fshrinks, fret>>
    /\ UNCHANGED <<purevars, wsvars>>

\* the compile step with its exceptions caught inside the loop: a failed compile is
\* taken as a document that does not fit, and the loop goes on
FitCompileSwallow ==
    /\ fpc = "compile"
    /\ fcompiles < MaxCompiles
    /\ \E o \in CompileOutcomes, m \in StdoutCounts :
          LET r == compile_with_page_count(o, m)
          IN  /\ fcompiles' = fcompiles + 1
              /\ fruns' = fruns + RunsOf(o)
              /\ IF r.ok
                 THEN /\ fpdf' = [n |-> fcompiles + 1, reported |-> r.reported,
                                  pages |-> r.pages, of |-> ftex]
                      /\ fmeasured' = Append(fmeasured, r.pages)
                 ELSE /\ fpdf' = [n |-> fcompiles + 1, reported |-> << >>,
                                  pages |-> MaxPages, of |-> ftex]
                      /\ fmeasured' = fmeasured
              /\ fpc' = "measure"
              /\ fret' = fret
    /\ UNCHANGED <<fdata, fworking, fpass, fultra, ftex, fshrinks>>
    /\ UNCHANGED <<purevars, wsvars>>

\* pdf_bytes, pages = _compile_with_page_count(tex_str)
FitCompile ==
    /\ fpc = "compile"
    /\ fcompiles < MaxCompiles
    /\ \E o \in CompileOutcomes, m \in StdoutCounts :
          LET r == compile_with_page_count(o, m)
          IN  /\ fcompiles' = fcompiles + 1
              /\ fruns' = fruns + RunsOf(o)
              /\ IF r.ok
                 THEN /\ fpdf' = [n |-> fcompiles + 1, reported |-> r.reported,
                                  pages |-> r.pages, of |-> ftex]
                      /\ fmeasured' = Append(fmeasured, r.pages)
                      /\ fpc' = "measure"
                      /\ fret' = fret
                 ELSE /\ fret' = [kind |-> "raise", exc |-> r.exc, status |-> r.status,
                                  detail |-> r.detail]
                      /\ fpc' = "failed"
                      /\ UNCHANGED <<fpdf, fmeasured>>
    /\ UNCHANGED <<fdata, fworking, fpass, fultra, ftex, fshrinks>>
    /\ UNCHANGED <<purevars, wsvars>>

\* the measure step with an ultra-squeeze loop that has no iteration budget
FitMeasureNoBudget ==
    /\ fpc = "measure"
    /\ IF Fits(fpdf.pages)
       THEN /\ fret' = [kind |-> "bytes", pdf |-> fpdf]
            /\ fpc' = "accepted"
            /\ UNCHANGED fultra
       ELSE IF fultra = 0
       THEN /\ fpc' = "shrink"
            /\ UNCHANGED <<fret, fultra>>
       ELSE /\ fultra' = Min2(fultra + 1, UltraIters)
            /\ fpc' = "squeeze"
            /\ UNCHANGED fret
    /\ UNCHANGED <<fdata, fworking, fpass, ftex, fpdf, fcompiles, fruns, fmeasured, fshrinks>>
    /\ UNCHANGED <<purevars, wsvars>>

\* if pages <= 1: return pdf_bytes -- and what follows in either loop
FitMeasure ==
    /\ fpc = "measure"
    /\ IF Fits(fpdf.pages)
       THEN /\ fret' = [kind |-> "bytes", pdf |-> fpdf]
            /\ fpc' = "accepted"
            /\ UNCHANGED fultra
       ELSE IF fultra = 0
       THEN /\ fpc' = "shrink"
            /\ UNCHANGED <<fret, fultra>>
       ELSE IF fultra < UltraIters
       THEN /\ fultra' = fultra + 1
            /\ fpc' = "squeeze"
            /\ UNCHANGED fret
       ELSE /\ fret' = FitFailure
            /\ fpc' = "rejected"
            /\ UNCHANGED fultra
    /\ UNCHANGED <<fdata, fworking, fpass, ftex, fpdf, fcompiles, fruns, fmeasured, fshrinks>>
    /\ UNCHANGED <<purevars, wsvars>>

\* working = enforce_section_order(_apply_shrink_pass(working, pass_no))
FitShrink ==
    /\ fpc = "shrink"
    /\ fworking' = enforce_section_order(apply_shrink_pass(fworking, fpass))
    /\ fshrinks' = Append(fshrinks, fpass)
    /\ fpass' = fpass + 1
    /\ IF fpass < StdPasses
       THEN fpc' = "render" /\ UNCHANGED fultra
       ELSE fpc' = "squeeze" /\ fultra' = 1
    /\ UNCHANGED <<fdata, ftex, fpdf, fcompiles, fruns, fmeasured, fret>>
    /\ UNCHANGED <<purevars, wsvars>>

\* working = _ultra_squeeze_to_one_page(working)
FitSqueeze ==
    /\ fpc = "squeeze"
    /\ fworking' = ultra_squeeze_to_one_page(fworking)
    /\ fshrinks' = Append(fshrinks, StdPasses + 1)
    /\ fpc' = "render"
    /\ UNCHANGED <<fdata, fpass, fultra, ftex, fpdf, fcompiles, fruns, fmeasured, fret>>
    /\ UNCHANGED <<purevars, wsvars>>

NextFit == FitStart \/ FitRender \/ FitCompile \/ FitMeasure \/ FitShrink \/ FitSqueeze

SpecFit == InitFit /\ [][NextFit]_vars
\* The loop is sequential code: whenever a step is possible it is eventually taken.
SpecFitFair == SpecFit /\ WF_vars(NextFit)

-----------------------------------------------------------------------------
(* Untrusted JSON values, as the extraction service returns them.  A value *)
(* carries its Python type: isinstance() reads the tag.                    *)

JNull    == [t |-> "null"]
JStr(s)  == [t |-> "str", v |-> s]
JNum(n)  == [t |-> "num", v |-> n]
JList(x) == [t |-> "list", v |-> x]
JDict(f) == [t |-> "dict", v |-> f]

DigitChars == <<"0","1","2","3","4","5","6","7","8","9">>
RECURSIVE Digits(_)
\* str(n) for an int n >= 0
Digits(n) == IF n < 10 THEN <<DigitChars[n + 1]>>
             ELSE Digits(n \div 10) \o <<DigitChars[(n % 10) + 1]>>

\* ensure_text(x); str() of a list or dict is abridged to its brackets
ensure_text(x) ==
    CASE x.t = "null" -> << >>
      [] x.t = "str"  -> x.v
      [] x.t = "num"  -> Digits(x.v)
      [] x.t = "list" -> IF x.v = << >> THEN <<"[", "]">> ELSE <<"[", "*", "]">>
      [] OTHER        -> IF DOMAIN x.v = {} THEN <<"{", "}">> ELSE <<"{", "*", "}">>

\* bool(x)
Truthy(x) ==
    CASE x.t = "null" -> FALSE
      [] x.t = "num"  -> x.v # 0
      [] x.t = "dict" -> DOMAIN x.v # {}
      [] OTHER        -> x.v # << >>

RECURSIVE SetToSeq(_)
SetToSeq(S) == IF S = {} THEN << >>
               ELSE LET x == CHOOSE y \in S : TRUE IN <<x>> \o SetToSeq(S \ {x})

\* what `for e in (x or [])` visits: the items of a list, the characters of a str,
\* the keys of a dict.  (A non-zero number is not iterable: TypeError.)
Items(x) ==
    IF ~Truthy(x) THEN << >>
    ELSE CASE x.t = "list" -> x.v
           [] x.t = "str"  -> [i \in 1..Len(x.v) |-> JStr(<<x.v[i]>>)]
           [] OTHER        -> LET ks == SetToSeq(DOMAIN x.v)
                              IN  [i \in 1..Len(ks) |-> JStr(<<ks[i]>>)]

\* x.get(k) of a dict value x
JGet(x, k) == IF k \in DOMAIN x.v THEN x.v[k] ELSE JNull
\* x.get(k, default)
JGetOr(x, k, default) == IF k \in DOMAIN x.v THEN x.v[k] ELSE default

\* [ensure_text(b) for b in (x or []) if ensure_text(b)]
TextItems(x) ==
    LET it == Items(x)
        tx == [i \in 1..Len(it) |-> ensure_text(it[i])]
    IN  SelectSeq(tx, LAMBDA s : s # << >>)

-----------------------------------------------------------------------------
(* normalize_cert_item (main.py) *)

Contains(s, sub) == \E i \in 1..(Len(s) - Len(sub) + 1) : SubSeq(s, i, i + Len(sub) - 1) = sub
FirstIndex(s, sub) ==
    SetMin({i \in 1..(Len(s) - Len(sub) + 1) : SubSeq(s, i, i + Len(sub) - 1) = sub})
RECURSIVE Split(_, _)
\* s.split(sep)
Split(s, sep) ==
    IF ~Contains(s, sep) THEN <<s>>
    ELSE LET i == FirstIndex(s, sep)
         IN  <<SubSeq(s, 1, i - 1)>> \o Split(SubSeq(s, i + Len(sep), Len(s)), sep)

IsDigit(c) == \E i \in 1..Len(DigitChars) : DigitChars[i] = c
IsWordChar(c) ==
    \/ IsDigit(c)
    \/ c = "_"
    \/ \E i \in 1..Len(UpperCase) : UpperCase[i] = c \/ LowerCase[i] = c

\* positions where \b(20\d{2}|19\d{2})\b matches
YearAt(s, i) ==
    /\ i + 3 <= Len(s)
    /\ SubSeq(s, i, i + 1) \in { <<"2","0">>, <<"1","9">> }
    /\ IsDigit(s[i + 2]) /\ IsDigit(s[i + 3])
    /\ (i = 1 \/ ~IsWordChar(s[i - 1]))
    /\ (i + 3 = Len(s) \/ ~IsWordChar(s[i + 4]))
HasYear(s) == \E i \in 1..Len(s) : YearAt(s, i)
\* re.search(...).group(1)
FirstYear(s) == LET i == SetMin({j \in 1..Len(s) : YearAt(s, j)}) IN SubSeq(s, i, i + 3)

HttpPrefix  == <<"h","t","t","p",":","/","/">>
HttpsPrefix == <<"h","t","t","p","s",":","/","/">>
\* re.match(r"https?://", ptxt, re.I)
StartsWithHttp(s) ==
    \/ Lower(Take(s, Len(HttpPrefix))) = HttpPrefix
    \/ Lower(Take(s, Len(HttpsPrefix))) = HttpsPrefix
\* any(k in ptxt.lower() for k in ["https://", "http://"])
MentionsHttp(s) == Contains(Lower(s), HttpsPrefix) \/ Contains(Lower(s), HttpPrefix)

\* s.strip("; ")
StripSemi(s) ==
    LET idx == {i \in 1..Len(s) : s[i] \notin {";", " "}}
    IN  IF idx = {} THEN << >> ELSE SubSeq(s, SetMin(idx), SetMax(idx))

CertSeparators == << <<"|">>, <<Bullet>>, <<" ","-"," ">>, <<" ",EmDash," ">>, <<EnDash>>, <<",">> >>

RECURSIVE cert_classify(_, _)
\* the loop `for p in parts[1:]` with its four slots
cert_classify(parts, acc) ==
    IF parts = << >> THEN acc
    ELSE LET p == Head(parts)
             nxt ==
               IF acc.date = << >> /\ HasYear(p)
               THEN [acc EXCEPT !.date = FirstYear(p)]
               ELSE IF acc.link = << >> /\ StartsWithHttp(p)
               THEN [acc EXCEPT !.link = p]
               ELSE IF acc.issuer = << >> /\ ~MentionsHttp(p)
               THEN [acc EXCEPT !.issuer = p]
               ELSE [acc EXCEPT !.desc = StripSemi(acc.desc \o <<";", " ">> \o p)]
         IN  cert_classify(Tail(parts), nxt)

\* normalize_cert_item(x)
normalize_cert_item(x) ==
    IF x.t = "dict" THEN
        [name        |-> clean_none(ensure_text(JGetOr(x, "name", JStr(<< >>)))),
         issuer      |-> clean_none(ensure_text(JGetOr(x, "issuer", JStr(<< >>)))),
         date        |-> clean_none(ensure_text(JGetOr(x, "date", JStr(<< >>)))),
         link        |-> clean_none(ensure_text(JGetOr(x, "link", JStr(<< >>)))),
         description |-> shorten_text(clean_none(ensure_text(JGetOr(x, "description", JStr(<< >>)))), 160)]
    ELSE
        LET raw == Strip(ensure_text(x))
        IN  IF raw = << >> THEN [name |-> << >>]
            ELSE
              LET hit   == {i \in 1..Len(CertSeparators) : Contains(raw, CertSeparators[i])}
                  split == IF hit = {} THEN <<raw>>
                           ELSE Split(raw, CertSeparators[SetMin(hit)])
                  strp  == [i \in 1..Len(split) |-> Strip(split[i])]
                  parts == IF hit = {} THEN <<raw>>
                           ELSE SelectSeq(strp, LAMBDA q : q # << >>)
                  name  == IF parts # << >> THEN parts[1] ELSE raw
                  acc   == cert_classify(IF parts = << >> THEN << >> ELSE Tail(parts),
                                         [issuer |-> << >>, date |-> << >>,
                                          link |-> << >>, desc |-> << >>])
              IN  [name        |-> clean_none(name),
                   issuer      |-> clean_none(acc.issuer),
                   date        |-> clean_none(acc.date),
                   link        |-> clean_none(acc.link),
                   description |-> shorten_text(clean_none(acc.desc), 160)]

-----------------------------------------------------------------------------
(* sanitize_struct (main.py) *)

ScalarKeys == {"first_name", "last_name", "email", "phone", "location", "summary"}
EntryListKeys == {"links", "experience", "projects", "education", "certifications"}
TextListKeys == {"skills", "publications"}

\* One entry of out["links"]
keeps_link(l) == l.t = "dict" \/ ensure_text(l) # << >>
sanitize_link(l) ==
    IF l.t = "dict"
    THEN [label |-> ensure_text(JGetOr(l, "label", JStr(<<"L","i","n","k">>))),
          url   |-> ensure_text(JGetOr(l, "url", JStr(<< >>)))]
    ELSE [label |-> <<"L","i","n","k">>, url |-> ensure_text(l)]

sanitize_exp(e) ==
    [title      |-> ensure_text(JGet(e, "title")),
     company    |-> ensure_text(JGet(e, "company")),
     location   |-> ensure_text(JGet(e, "location")),
     start_date |-> ensure_text(JGet(e, "start_date")),
     end_date   |-> ensure_text(JGet(e, "end_date")),
     summary    |-> ensure_text(JGet(e, "summary")),
     bullets    |-> TextItems(JGet(e, "bullets"))]

sanitize_proj(q) ==
    [name       |-> ensure_text(JGet(q, "name")),
     tech       |-> ensure_text(JGet(q, "tech")),
     link       |-> ensure_text(JGet(q, "link")),
     summary    |-> ensure_text(JGet(q, "summary")),
     start_date |-> ensure_text(JGet(q, "start_date")),
     end_date   |-> ensure_text(JGet(q, "end_date")),
     bullets    |-> TextItems(JGet(q, "bullets"))]

EmptyDetailWords == { <<"[","]">>, << >>, <<"n","u","l","l">>, <<"N","o","n","e">>, <<"-">> }
sanitize_edu(e) ==
    LET dv == JGet(e, "details")
        details ==
            IF dv.t = "str"
            THEN IF Strip(dv.v) \in EmptyDetailWords THEN << >> ELSE <<dv.v>>
            ELSE IF dv.t = "list"
            THEN LET tx == [i \in 1..Len(dv.v) |-> ensure_text(dv.v[i])]
                 IN  SelectSeq(tx, LAMBDA z : z # << >>)
            ELSE << >>
        school == JGet(e, "school")
    IN  [degree          |-> ensure_text(JGet(e, "degree")),
         institution     |-> ensure_text(IF Truthy(school) THEN school
                                         ELSE JGet(e, "institution")),
         location        |-> ensure_text(JGet(e, "location")),
         graduation_year |-> ensure_text(JGet(e, "graduation_year")),
         details         |-> details]

\* `for e in (x or [])` raises TypeError: a number other than 0 is not iterable
NotIterable(x) == x.t = "num" /\ x.v # 0

\* sanitize_struct(d) raises: one of its loops runs over a value that is not iterable
sanitize_raises(d) ==
    LET get(k) == IF k \in DOMAIN d THEN d[k] ELSE JNull
    IN  \/ \E k \in EntryListKeys \cup TextListKeys : NotIterable(get(k))
        \/ \E k \in {"experience", "projects"} :
               /\ ~NotIterable(get(k))
               /\ \E i \in 1..Len(Items(get(k))) :
                     /\ Items(get(k))[i].t = "dict"
                     /\ NotIterable(JGet(Items(get(k))[i], "bullets"))

\* the dict entries of a list, each rebuilt by F; non-dict entries are dropped
DictEntries(x, F(_)) ==
    LET it == SelectSeq(Items(x), LAMBDA e : e.t = "dict")
    IN  [i \in 1..Len(it) |-> F(it[i])]

\* sanitize_struct(d), d a dict of JSON values
sanitize_struct(d) ==
    LET get(k) == IF k \in DOMAIN d THEN d[k] ELSE JNull
        certs  == Items(get("certifications"))
        pubs   == Items(get("publications"))
        links  == SelectSeq(Items(get("links")), keeps_link)
    IN  [k \in (DOMAIN d) \cup EntryListKeys \cup TextListKeys |->
            CASE k \in ScalarKeys       -> ensure_text(d[k])
              [] k = "links"          -> [i \in 1..Len(links) |-> sanitize_link(links[i])]
              [] k = "skills"         -> TextItems(get("skills"))
              [] k = "experience"     -> DictEntries(get("experience"), sanitize_exp)
              [] k = "projects"       -> DictEntries(get("projects"), sanitize_proj)
              [] k = "education"      -> DictEntries(get("education"), sanitize_edu)
              [] k = "certifications" -> [i \in 1..Len(certs) |-> normalize_cert_item(certs[i])]
              [] k = "publications"   -> [i \in 1..Len(pubs) |-> ensure_text(pubs[i])]
              [] OTHER                -> d[k]]

\* A dict of the pipeline read again as JSON (sanitize_struct and normalize_cert_item
\* are also called on records that are already Python dicts of str and list).
StrItems(xs) == JList([i \in 1..Len(xs) |-> JStr(xs[i])])
EntryJ(e) ==
    JDict([k \in DOMAIN e |->
             IF k \in {"bullets", "details"} THEN StrItems(e[k]) ELSE JStr(e[k])])
AsJson(d) ==
    [k \in DOMAIN d |->
        CASE k \in ScalarKeys    -> JStr(d[k])
          [] k \in TextListKeys  -> StrItems(d[k])
          [] k \in EntryListKeys -> JList([i \in 1..Len(d[k]) |-> EntryJ(d[k][i])])
          [] OTHER               -> d[k]]

-----------------------------------------------------------------------------
(* Sizing (main.py) *)

SHORT_MAX == 1650
LONG_MIN  == 2900
MAX_EXP_DEFAULT          == 3
MAX_PROJ_DEFAULT         == 2
MAX_EDU_DEFAULT          == 2
MAX_BULLETS_EXP_DEFAULT  == 2
MAX_BULLETS_PROJ_DEFAULT == 2
MAX_CERTS_DEFAULT        == 6
MAX_PUBLICATIONS_DEFAULT == 4
MAX_SKILLS_DEFAULT       == 12

LenOf(e, keys) == SumSeq([i \in 1..Len(keys) |-> Len(Get(e, keys[i]))])
LenAll(xs) == SumSeq([i \in 1..Len(xs) |-> Len(xs[i])])
CountEntries(xs, keys, listKey) ==
    SumSeq([i \in 1..Len(xs) |->
              LenOf(xs[i], keys) + (IF listKey = "" THEN 0 ELSE LenAll(Get(xs[i], listKey)))])

\* _approx_char_count(d)
approx_char_count(d) ==
      LenOf(d, <<"first_name", "last_name", "summary">>)
    + LenAll(Get(d, "skills"))
    + CountEntries(Get(d, "experience"),
                   <<"title", "company", "location", "start_date", "end_date", "summary">>,
                   "bullets")
    + CountEntries(Get(d, "projects"), <<"name", "tech", "summary">>, "bullets")
    + CountEntries(Get(d, "education"),
                   <<"degree", "institution", "location", "graduation_year">>, "details")
    + CountEntries(Get(d, "certifications"), <<"name", "issuer", "date", "description">>, "")
    + LenAll(Get(d, "publications"))

-----------------------------------------------------------------------------
(* compress_payload_for_one_page (main.py) *)

Present == <<"P","r","e","s","e","n","t">>

\* the caps chosen from base_chars
band_limits(base_chars) ==
    IF base_chars < SHORT_MAX THEN
        [max_exp |-> Min2(4, MAX_EXP_DEFAULT + 1), max_proj |-> Min2(3, MAX_PROJ_DEFAULT + 1),
         max_edu |-> MAX_EDU_DEFAULT, max_cert |-> MAX_CERTS_DEFAULT,
         max_bullets_exp |-> 4, max_bullets_proj |-> 4,
         sum_limit_exp |-> 280, sum_limit_proj |-> 220]
    ELSE IF base_chars >= LONG_MIN THEN
        [max_exp |-> MAX_EXP_DEFAULT, max_proj |-> MAX_PROJ_DEFAULT,
         max_edu |-> MAX_EDU_DEFAULT, max_cert |-> Min2(5, MAX_CERTS_DEFAULT),
         max_bullets_exp |-> MAX_BULLETS_EXP_DEFAULT,
         max_bullets_proj |-> MAX_BULLETS_PROJ_DEFAULT,
         sum_limit_exp |-> 200, sum_limit_proj |-> 160]
    ELSE
        [max_exp |-> MAX_EXP_DEFAULT, max_proj |-> MAX_PROJ_DEFAULT,
         max_edu |-> MAX_EDU_DEFAULT, max_cert |-> MAX_CERTS_DEFAULT,
         max_bullets_exp |-> 3, max_bullets_proj |-> 3,
         sum_limit_exp |-> 220, sum_limit_proj |-> 180]

\* _normalize_dates(items), on one entry
normalize_dates(e) ==
    IF Strip(Get(e, "start_date")) # << >> /\ Strip(Get(e, "end_date")) = << >>
    THEN Put(e, "end_date", Present)
    ELSE e

\* the loop over experience / projects
shape_entry(e, sum_limit, max_bullets) ==
    LET e1 == normalize_dates(e)
        e2 == Put(e1, "summary", shorten_text(Get(e1, "summary"), sum_limit))
    IN  Put(e2, "bullets", limit_bullets(Get(e2, "bullets"), max_bullets))

\* the loop over education
shape_edu(e) ==
    LET details == Get(e, "details")
    IN  IF details # << >>
        THEN Put(e, "details", [i \in 1..Len(details) |-> shorten_text(details[i], 120)])
        ELSE e

\* the five fields of a certification, cleaned
clean_cert(c) ==
    [name        |-> clean_none(Get(c, "name")),
     issuer      |-> clean_none(Get(c, "issuer")),
     date        |-> clean_none(Get(c, "date")),
     link        |-> clean_none(Get(c, "link")),
     description |-> clean_none(Get(c, "description"))]
cert_is_empty(c) ==
    c.name = << >> /\ c.issuer = << >> /\ c.date = << >> /\ c.link = << >>
        /\ c.description = << >>
\* key = (c["name"].lower(), c["issuer"].lower(), c["date"], c["link"])
cert_key(c) == <<Lower(c.name), Lower(c.issuer), c.date, c.link>>

\* the loop `for c in norm` without `seen`: every non-empty certification is kept
keep_all_certs(norm, clean, seen) ==
    SelectSeq([i \in 1..Len(norm) |-> clean_cert(norm[i])], LAMBDA c : ~cert_is_empty(c))

RECURSIVE dedupe_certs(_, _, _)
\* the loop `for c in norm`, with `clean` and `seen`
dedupe_certs(norm, clean, seen) ==
    IF norm = << >> THEN clean
    ELSE LET c == clean_cert(Head(norm))
         IN  IF cert_is_empty(c) THEN dedupe_certs(Tail(norm), clean, seen)
             ELSE IF cert_key(c) \notin seen
             THEN dedupe_certs(Tail(norm), Append(clean, c), seen \cup {cert_key(c)})
             ELSE dedupe_certs(Tail(norm), clean, seen)

\* compress_payload_for_one_page(data), after d = sanitize_struct(data)
compress_sanitized(d) ==
    LET lim    == band_limits(approx_char_count(d))
        exp2   == [i \in 1..Len(Get(d, "experience")) |->
                     shape_entry(Get(d, "experience")[i], lim.sum_limit_exp,
                                 lim.max_bullets_exp)]
        projs2 == [i \in 1..Len(Get(d, "projects")) |->
                     shape_entry(Get(d, "projects")[i], lim.sum_limit_proj,
                                 lim.max_bullets_proj)]
        edu2   == [i \in 1..Len(Get(d, "education")) |-> shape_edu(Get(d, "education")[i])]
        norm   == [i \in 1..Len(Get(d, "certifications")) |->
                     normalize_cert_item(EntryJ(Get(d, "certifications")[i]))]
        sk2    == Take([i \in 1..Len(Get(d, "skills")) |->
                           shorten_text(Get(d, "skills")[i], 90)],
                       MAX_SKILLS_DEFAULT)
        richness ==
              Len(SelectSeq(Take(exp2, lim.max_exp),
                            LAMBDA e : Get(e, "title") # << >> \/ Get(e, "company") # << >>))
            + Len(SelectSeq(sk2, LAMBDA z : z # << >>))
            + Len(Take(edu2, lim.max_edu))
    IN  Override(d,
          [experience     |-> Take(exp2, lim.max_exp),
           projects       |-> Take(projs2, lim.max_proj),
           education      |-> Take(edu2, lim.max_edu),
           certifications |-> Take(dedupe_certs(norm, << >>, {}), lim.max_cert),
           publications   |-> Take(Get(d, "publications"), MAX_PUBLICATIONS_DEFAULT),
           skills         |-> sk2,
           show_summary   |-> (Get(d, "summary") # << >> /\ richness < 6)])

\* compress_payload_for_one_page(data)
compress_payload_for_one_page(data) == Bind(sanitize_struct(AsJson(data)), compress_sanitized)

-----------------------------------------------------------------------------
(* merge_structured (main.py) *)

key_exp(e)  == <<Lower(Get(e, "title")), Lower(Get(e, "company"))>>
key_edu(e)  == <<Lower(Get(e, "degree")), Lower(Get(e, "institution"))>>
key_proj(q) == Lower(Get(q, "name"))

\* {key(e): e for e in entries}: membership, and the entry a key maps to (the last one)
InMap(entries, K(_), key) == \E i \in 1..Len(entries) : K(entries[i]) = key
MapAt(entries, K(_), key) ==
    entries[SetMax({i \in 1..Len(entries) : K(entries[i]) = key})]
\* the keys of that dict in insertion order, as positions of their first entries
FirstPositions(entries, K(_)) ==
    SelectSeq([i \in 1..Len(entries) |-> i],
              LAMBDA i : \A j \in 1..(i - 1) : K(entries[j]) # K(entries[i]))

\* if not base.get(k) and o.get(k): base[k] = o[k]
Inherit(base, o, k) ==
    IF Get(base, k) = << >> /\ Get(o, k) # << >> THEN Put(base, k, o[k]) ELSE base

merge_edu_entry(e, orig_edu) ==
    IF InMap(orig_edu, key_edu, key_edu(e))
    THEN LET o == MapAt(orig_edu, key_edu, key_edu(e))
         IN  Inherit(Inherit(Inherit(e, o, "details"), o, "graduation_year"), o, "location")
    ELSE e

merge_exp_entry(e, orig_exp) ==
    IF InMap(orig_exp, key_exp, key_exp(e))
    THEN LET o  == MapAt(orig_exp, key_exp, key_exp(e))
             b1 == IF Get(e, "bullets") = << >> THEN Put(e, "bullets", Get(o, "bullets")) ELSE e
         IN  Inherit(b1, o, "summary")
    ELSE e

merge_proj_entry(q, orig_proj) ==
    IF InMap(orig_proj, key_proj, key_proj(q))
    THEN LET o  == MapAt(orig_proj, key_proj, key_proj(q))
             b1 == IF Get(q, "bullets") = << >> THEN Put(q, "bullets", Get(o, "bullets")) ELSE q
         IN  Inherit(Inherit(b1, o, "summary"), o, "link")
    ELSE q

\* merged_exp alone, without `or (original.get("experience") or [])`
merged_exp_only(merged_exp, orig_exp) == merged_exp

\* merged_exp or (original.get("experience") or [])
exp_or_baseline(merged_exp, orig_exp) == IF merged_exp # << >> THEN merged_exp ELSE orig_exp

\* opt_sk if (opt_sk and len(opt_sk) >= max(3, len(orig_sk) // 2)) else orig_sk
merge_skills(orig_sk, opt_sk) ==
    IF opt_sk # << >> /\ Len(opt_sk) >= Max2(3, Len(orig_sk) \div 2) THEN opt_sk ELSE orig_sk

RECURSIVE merge_links_from(_, _, _)
merge_links_from(srcs, out, seen) ==
    IF srcs = << >> THEN out
    ELSE LET url   == Get(Head(srcs), "url")
             lab   == IF Get(Head(srcs), "label") # << >> THEN Get(Head(srcs), "label")
                      ELSE <<"L","i","n","k">>
         IN  IF url # << >> /\ url \notin seen
             THEN merge_links_from(Tail(srcs), Append(out, [label |-> lab, url |-> url]),
                                   seen \cup {url})
             ELSE merge_links_from(Tail(srcs), out, seen)
\* _merge_links(a, b)
merge_links(a, b) == merge_links_from(a \o b, << >>, {})

\* the optimized entries alone, without the baseline entries of other keys
merged_edu_optimized_only(orig_edu, opt_edu) ==
    [i \in 1..Len(opt_edu) |-> merge_edu_entry(opt_edu[i], orig_edu)]

\* d["education"]
merged_edu(orig_edu, opt_edu) ==
    [i \in 1..Len(opt_edu) |-> merge_edu_entry(opt_edu[i], orig_edu)]
    \o SelectSeq(orig_edu, LAMBDA o : ~InMap(opt_edu, key_edu, key_edu(o)))

\* merged_exp, before `or (original.get("experience") or [])`
merged_exp(orig_exp, opt_exp) ==
    [i \in 1..Len(opt_exp) |-> merge_exp_entry(opt_exp[i], orig_exp)]

\* d["projects"]
merged_proj(orig_proj, opt_proj) ==
    LET merged0 == [i \in 1..Len(opt_proj) |-> merge_proj_entry(opt_proj[i], orig_proj)]
        extra   == SelectSeq(FirstPositions(orig_proj, key_proj),
                       LAMBDA i : ~InMap(merged0, key_proj, key_proj(orig_proj[i])))
    IN  merged0
        \o [j \in 1..Len(extra) |-> MapAt(orig_proj, key_proj, key_proj(orig_proj[extra[j]]))]

\* merge_structured(original, optimized), after both have been sanitized
merge_sanitized(original, optimized) ==
    LET d == Override(optimized,
               [skills     |-> merge_skills(Get(original, "skills"), Get(optimized, "skills")),
                education  |-> merged_edu(Get(original, "education"),
                                          Get(optimized, "education")),
                experience |-> exp_or_baseline(
                                   merged_exp(Get(original, "experience"),
                                              Get(optimized, "experience")),
                                   Get(original, "experience")),
                projects   |-> merged_proj(Get(original, "projects"),
                                           Get(optimized, "projects")),
                links      |-> merge_links(Get(original, "links"),
                                           Get(optimized, "links"))])
    IN  IF Get(optimized, "location") = << >> /\ Get(original, "location") # << >>
        THEN Override(d, [location |-> original["location"]])
        ELSE d

\* merge_structured(original, optimized)
merge_structured(original, optimized) ==
    Bind2(sanitize_struct(original), sanitize_struct(optimized), merge_sanitized)

-----------------------------------------------------------------------------
(* Inputs of the shaping functions: records as the extraction service      *)
(* returns them (JSON), built from a few knobs.                            *)

\* bounds of the shaping inputs
MaxEntries == 5      \* entries per section (experience, projects, education)
MaxBullets == 5      \* bullets per entry

Tx(c, i) == <<c, DigitChars[(i % 10) + 1]>>
Year(y) == Digits(y)

\* shape: "plain" closed dates, "open" a start_date and no end_date,
\*        "long" long summaries and bullets padded with blanks
BulletJ(j, shape) ==
    IF j = 2 THEN JStr(<<" ", " ">>)
    ELSE IF shape = "long" THEN JStr(<<" ">> \o Tx("b", j) \o <<" ">>)
    ELSE JStr(Tx("b", j))
BulletsJ(b, shape) == JList([j \in 1..b |-> BulletJ(j, shape)])
SummaryJ(shape, i) ==
    IF shape = "long" /\ i = 1 THEN JStr(Rep("s", 140) \o <<" ", " ">> \o Rep("s", 143))
    ELSE JStr(<<"s", "u", "m">>)
ExpJ(i, b, shape) ==
    JDict([title      |-> JStr(Tx("T", i)),
           company    |-> JStr(<<"C", "o">>),
           location   |-> JNull,
           start_date |-> JStr(Year(2019)),
           end_date   |-> JStr(IF shape = "open" THEN << >> ELSE Year(2021)),
           summary    |-> SummaryJ(shape, i),
           bullets    |-> BulletsJ(b, shape)])
ProjJ(i, b, shape) ==
    JDict([name       |-> JStr(Tx("P", i)),
           tech       |-> JStr(<<"g", "o">>),
           link       |-> JStr(<< >>),
           summary    |-> SummaryJ(shape, i),
           start_date |-> JStr(IF shape = "open" THEN Year(2022) ELSE << >>),
           bullets    |-> BulletsJ(b, shape)])
EduJ(i, b) ==
    JDict([degree          |-> JStr(Tx("D", i)),
           school          |-> JStr(<<"U">>),
           graduation_year |-> JNum(2018),
           details         |-> JList([j \in 1..Min2(b, 2) |-> JStr(Tx("d", j))])])
CertJ(name, issuer, date, link, desc) ==
    JDict([name |-> JStr(name), issuer |-> JStr(issuer), date |-> JStr(date),
           link |-> JStr(link), description |-> JStr(desc)])

Aws    == <<"A", "W", "S">>
Amazon == <<"A", "m", "a", "z", "o", "n">>
CertLists == <<
    \* 1: none
    << >>,
    \* 2: seven different certifications
    [i \in 1..7 |-> CertJ(Tx("c", i), <<"I">>, Year(2020), << >>, <<"x">>)],
    \* 3: the same certification in several spellings, a none-like one, a string item
    << CertJ(Aws, Amazon, Year(2023), << >>, << >>),
       CertJ(Lower(Aws), <<" ">> \o Amazon, Year(2023), <<"-">>, <<"d">>),
       CertJ(<<"n","o","n","e">>, <<"N","/","A">>, <<EmDash>>, <<"n","u","l","l">>, << >>),
       JStr(Aws \o <<" ", "|", " ">> \o Lower(Amazon) \o <<" ", "|", " ">> \o Year(2023)),
       CertJ(Aws, Amazon, Year(2024), << >>, << >>) >>,
    \* 4: duplicates that differ only in link or date, and an empty string item
    << CertJ(<<"k">>, <<"I">>, Year(2020), HttpsPrefix \o <<"a">>, << >>),
       CertJ(<<"K">>, <<"i">>, Year(2020), HttpsPrefix \o <<"a">>, <<"y">>),
       JStr(<<" ">>),
       CertJ(<<"k">>, <<"I">>, Year(2020), HttpsPrefix \o <<"b">>, << >>),
       CertJ(<<"k">>, <<"I">>, Year(2020), HttpsPrefix \o <<"A">>, << >>) >>
  >>

Shapes == {"plain", "open", "long"}
BulletCounts == {0, 3, MaxBullets}
\* approximate character counts the inputs are padded to (0: no padding)
TargetSizes == {0, 1648, 1650, 2898, 2900, 3100}

RecordJ(n, b, shape, certs) ==
    [first_name     |-> JStr(<<"F">>),
     last_name      |-> JStr(<<"L">>),
     email          |-> JNull,
     skills         |-> JList([i \in 1..(3 * n) |-> JStr(Tx("k", i))]),
     experience     |-> JList([i \in 1..n |-> ExpJ(i, b, shape)]),
     projects       |-> JList([i \in 1..n |-> ProjJ(i, b, shape)]),
     education      |-> JList([i \in 1..n |-> EduJ(i, b)]),
     certifications |-> JList(CertLists[certs]),
     publications   |-> JList([i \in 1..n |-> JStr(Tx("q", i))])]

\* the record padded, through its summary, to an approximate character count
Padded(j, target) ==
    LET c0 == approx_char_count(sanitize_struct(j))
    IN  IF target > c0
        THEN [k \in (DOMAIN j) \cup {"summary"} |->
                 IF k = "summary" THEN JStr(Rep("w", target - c0)) ELSE j[k]]
        ELSE j

EntryCounts == {0, 1, MaxEntries}
\* the knobs of one input, and the record they stand for
CompressKnobs ==
    [n : EntryCounts, b : BulletCounts, shape : Shapes,
     certs : 1..Len(CertLists), target : TargetSizes]
CompressInput(k) == Padded(RecordJ(k.n, k.b, k.shape, k.certs), k.target)

FitOff ==
    /\ fpc = "off" /\ fdata = EmptyDict /\ fworking = EmptyDict /\ fpass = 0
    /\ fultra = 0 /\ ftex = EmptyDict /\ fpdf = NoPdf /\ fcompiles = 0 /\ fruns = 0
    /\ fmeasured = << >> /\ fshrinks = << >> /\ fret = NoRet

-----------------------------------------------------------------------------
(* Compression applied to a sanitized record, and applied again *)

InitCompress ==
    /\ ppc = "raw"
    /\ pin \in CompressKnobs
    /\ pout = EmptyDict
    /\ FitOff
    /\ WsOff

\* orig_structured = sanitize_struct(orig_structured)
CompressSanitize ==
    /\ ppc = "raw"
    /\ pout' = [r |-> sanitize_struct(CompressInput(pin))]
    /\ ppc' = "sanitized"
    /\ UNCHANGED pin
    /\ UNCHANGED <<fitvars, wsvars>>

\* data = compress_payload_for_one_page(resume.dict())
CompressOnce ==
    /\ ppc = "sanitized"
    /\ pout' = [r |-> pout.r, c1 |-> compress_payload_for_one_page(pout.r)]
    /\ ppc' = "once"
    /\ UNCHANGED pin
    /\ UNCHANGED <<fitvars, wsvars>>

\* compress_payload_for_one_page applied to its own output
CompressTwice ==
    /\ ppc = "once"
    /\ pout' = [r |-> pout.r, c1 |-> pout.c1, c2 |-> compress_payload_for_one_page(pout.c1)]
    /\ ppc' = "twice"
    /\ UNCHANGED pin
    /\ UNCHANGED <<fitvars, wsvars>>

NextCompress == CompressSanitize \/ CompressOnce \/ CompressTwice

SpecCompress == InitCompress /\ [][NextCompress]_vars

-----------------------------------------------------------------------------
(* merge_structured applied to a sanitized baseline and a sanitized        *)
(* optimized record, as the endpoints of main.py apply it.                 *)

\* bound of the merge inputs
MaxMergeEntries == 2     \* experience / projects / education entries of the baseline

\* what the optimized extraction holds under "experience"
\* ("failed": the extraction raised and the handler merges {} instead)
OptKinds == {"missing", "null", "empty", "strings", "same", "new", "failed"}

OptExpJ(kind, n) ==
    CASE kind = "null"    -> JNull
      [] kind = "empty"   -> JList(<< >>)
      [] kind = "strings" -> JList([i \in 1..2 |-> JStr(Tx("T", i))])
      [] kind = "same"    -> JList([i \in 1..Max2(n, 1) |->
                                 JDict([title   |-> JStr(Lower(Tx("T", i))),
                                        company |-> JStr(<<"C", "O">>),
                                        bullets |-> JList(<< >>)])])
      [] OTHER            -> JList(<<ExpJ(9, 1, "plain")>>)

OptimizedJ(kind, n, sk) ==
    LET base == [first_name |-> JStr(<<"F">>),
                 last_name  |-> JStr(<<"L">>),
                 location   |-> JNull,
                 skills     |-> JList([i \in 1..sk |-> JStr(Tx("o", i))]),
                 projects   |-> JList(<<ProjJ(1, 0, "plain"), ProjJ(8, 1, "plain")>>),
                 education  |-> JList(<<EduJ(1, 0)>>)]
    IN  IF kind = "failed" THEN EmptyDict
        ELSE IF kind = "missing" THEN base
        ELSE [k \in (DOMAIN base) \cup {"experience"} |->
                 IF k = "experience" THEN OptExpJ(kind, n) ELSE base[k]]

BaselineContact ==
    [location |-> JStr(<<"N", "Y">>),
     email    |-> JStr(<<"e", "@", "x", ".", "y">>),
     phone    |-> JStr(<<"5", "5", "5">>),
     summary  |-> JStr(<<"S", "u", "m">>)]
BaselineJ(n, b, shape) ==
    [k \in (DOMAIN RecordJ(n, b, shape, 1)) \cup (DOMAIN BaselineContact) |->
        IF k \in DOMAIN BaselineContact THEN BaselineContact[k]
        ELSE RecordJ(n, b, shape, 1)[k]]

\* the baseline with, at the end of its projects and of its education, two entries
\* whose keys differ only in case and match no entry of the optimized record
BaselineDupJ(n, b, shape) ==
    LET base == BaselineJ(n, b, shape)
        p7   == ProjJ(7, b, shape).v
        e7   == EduJ(7, b).v
        low(f, k) == [x \in DOMAIN f |-> IF x = k THEN JStr(Lower(f[k].v)) ELSE f[x]]
    IN  [k \in DOMAIN base |->
            CASE k = "projects"  ->
                     JList(base[k].v \o <<JDict(p7),
                                           JDict(low([p7 EXCEPT !["tech"] = JStr(<<"c">>)],
                                                     "name"))>>)
              [] k = "education" ->
                     JList(base[k].v \o <<JDict(e7),
                                           JDict(low([e7 EXCEPT !["graduation_year"] =
                                                                    JNum(2020)],
                                                     "degree"))>>)
              [] OTHER -> base[k]]

\* sk: the number of skills of the optimized record; dup: the baseline has entries of
\* one key
MergeKnobs ==
    [n : 0..MaxMergeEntries, b : {0, 3}, shape : {"plain", "open"}, kind : OptKinds,
     sk : {0, 2, 4}, dup : BOOLEAN]

InitMerge ==
    /\ ppc = "extracted"
    /\ pin \in MergeKnobs
    /\ pout = EmptyDict
    /\ FitOff
    /\ WsOff

\* orig_structured = sanitize_struct(orig_structured);
\* opt_structured = sanitize_struct(opt_structured)
MergeSanitize ==
    /\ ppc = "extracted"
    /\ pout' = [orig |-> sanitize_struct(IF pin.dup
                                          THEN BaselineDupJ(pin.n, pin.b, pin.shape)
                                          ELSE BaselineJ(pin.n, pin.b, pin.shape)),
                opt  |-> sanitize_struct(OptimizedJ(pin.kind, pin.n, pin.sk))]
    /\ ppc' = "structured"
    /\ UNCHANGED pin
    /\ UNCHANGED <<fitvars, wsvars>>

\* merged = merge_structured(orig_structured, opt_structured)
MergeRun ==
    /\ ppc = "structured"
    /\ pout' = [orig   |-> pout.orig,
                opt    |-> pout.opt,
                merged |-> merge_structured(AsJson(pout.orig), AsJson(pout.opt))]
    /\ ppc' = "merged"
    /\ UNCHANGED pin
    /\ UNCHANGED <<fitvars, wsvars>>

NextMerge == MergeSanitize \/ MergeRun

SpecMerge == InitMerge /\ [][NextMerge]_vars

-----------------------------------------------------------------------------
(* enforce_section_order applied to a record, and applied again *)

\* the keys a record handed to enforce_section_order may or may not carry
EnforceKeys ==
    {"first_name", "education", "projects", "skills", "certifications",
     "experience", "publications"}
\* summary: missing, empty or a text; section_order: missing, or left by an earlier
\* stage in another order, or naming a section that is not rendered
EnforceKnobs ==
    [keys : SUBSET EnforceKeys, summary : {"absent", "empty", "text"},
     order : {"absent", "reversed", "foreign"}]
EnforceValue(k) ==
    CASE k = "first_name"     -> <<"f">>
      [] k = "skills"         -> <<<<"k">>>>
      [] k = "publications"   -> <<<<"q">>>>
      [] k = "education"      -> <<FitEducation(1)>>
      [] k = "projects"       -> <<FitProject(1)>>
      [] k = "certifications" -> <<FitCert(1)>>
      [] k = "summary"        -> <<"s">>
      [] OTHER                -> <<[title |-> <<"t">>, company |-> <<"c">>,
                                    bullets |-> <<<<"b">>>>]>>
EnforceInput(kn) ==
    [k \in kn.keys \cup (IF kn.summary = "absent" THEN {} ELSE {"summary"})
                   \cup (IF kn.order = "absent" THEN {} ELSE {"section_order"}) |->
        CASE k = "summary"       -> IF kn.summary = "empty" THEN << >> ELSE EnforceValue(k)
          [] k = "section_order" -> IF kn.order = "reversed"
                                    THEN <<"certifications", "skills", "projects",
                                           "education", "summary">>
                                    ELSE <<"summary", "experience", "publications">>
          [] OTHER               -> EnforceValue(k)]

InitEnforce ==
    /\ ppc = "record"
    /\ pin \in EnforceKnobs
    /\ pout = EmptyDict
    /\ FitOff
    /\ WsOff

\* working = enforce_section_order(dict(data))
EnforceOnce ==
    /\ ppc = "record"
    /\ pout' = [r |-> EnforceInput(pin), e1 |-> enforce_section_order(EnforceInput(pin))]
    /\ ppc' = "enforced"
    /\ UNCHANGED pin
    /\ UNCHANGED <<fitvars, wsvars>>

\* enforce_section_order applied to its own output, as the fit loop and
\* _ultra_squeeze_to_one_page apply it
EnforceTwice ==
    /\ ppc = "enforced"
    /\ pout' = [r |-> pout.r, e1 |-> pout.e1, e2 |-> enforce_section_order(pout.e1)]
    /\ ppc' = "enforced_twice"
    /\ UNCHANGED pin
    /\ UNCHANGED <<fitvars, wsvars>>

NextEnforce == EnforceOnce \/ EnforceTwice

SpecEnforce == InitEnforce /\ [][NextEnforce]_vars

-----------------------------------------------------------------------------
(* expand_sparse_content (main.py) and the replies of the language model *)

SPARSE_TARGET_BULLETS_EXP == 4
SPARSE_TARGET_BULLETS_PROJ == 4
SPARSE_MAX_NEW_PROJECTS == 2
SPARSE_MAX_NEW_EXPERIENCES == 1
MIN_BULLETS_MID == 3

\* A reply to a bullet prompt: the call raised (ok = FALSE), or resp.text as its
\* lines; mark tells whether the line matches \s*[-*•]\s+(.*), text is group 1.
\* _parse_bullets_from_text(txt, max_n)
RECURSIVE parse_bullets_from(_, _, _)
parse_bullets_from(lines, max_n, out) ==
    IF lines = << >> THEN out
    ELSE LET line == Head(lines)
             got  == IF line.mark /\ Strip(line.text) # << >>
                     THEN Append(out, shorten_text(Strip(line.text), 180))
                     ELSE out
         IN  IF Len(got) >= max_n THEN got
             ELSE parse_bullets_from(Tail(lines), max_n, got)
parse_bullets_from_text(lines, max_n) == parse_bullets_from(lines, max_n, << >>)

\* _llm_generate_extra_bullets(context, max_needed), given the reply
llm_generate_extra_bullets(reply, max_needed) ==
    IF max_needed <= 0 THEN << >>
    ELSE IF ~reply.ok THEN << >>
    ELSE parse_bullets_from_text(reply.lines, max_needed)

\* where the word `and` stands between word boundaries: \band\b
AndAt(s, i) ==
    /\ i + 2 <= Len(s)
    /\ SubSeq(s, i, i + 2) = <<"a", "n", "d">>
    /\ (i = 1 \/ ~IsWordChar(s[i - 1]))
    /\ (i + 2 = Len(s) \/ ~IsWordChar(s[i + 3]))
\* re.split(r'[;,.]|\band\b', s)
RECURSIVE split_clauses(_, _, _, _)
split_clauses(s, i, cur, out) ==
    IF i > Len(s) THEN Append(out, cur)
    ELSE IF s[i] \in {";", ",", "."} THEN split_clauses(s, i + 1, << >>, Append(out, cur))
    ELSE IF AndAt(s, i) THEN split_clauses(s, i + 3, << >>, Append(out, cur))
    ELSE split_clauses(s, i + 1, Append(cur, s[i]), out)

FillerPhrases ==
    << <<"r","e","s","p","o","n","s","i","b","l","e"," ","f","o","r">>,
       <<"w","o","r","k","e","d"," ","o","n">>,
       <<"h","e","l","p","e","d">>,
       <<"i","n","v","o","l","v","e","d"," ","i","n">> >>
\* p begins, in any case, with the phrase followed by white space
BeginsWith(p, w) ==
    /\ Len(p) > Len(w)
    /\ Lower(SubSeq(p, 1, Len(w))) = w
    /\ IsWS(p[Len(w) + 1])
\* the first position of p[from..] that is not white space
RECURSIVE SkipWS(_, _)
SkipWS(p, from) ==
    IF from <= Len(p) /\ IsWS(p[from]) THEN SkipWS(p, from + 1) ELSE from
\* re.sub(r'^(responsible for|worked on|helped|involved in)\s+', '', p, flags=re.I)
strip_filler(p) ==
    IF \E k \in 1..Len(FillerPhrases) : BeginsWith(p, FillerPhrases[k])
    THEN LET k == CHOOSE k \in 1..Len(FillerPhrases) : BeginsWith(p, FillerPhrases[k])
         IN  SubSeq(p, SkipWS(p, Len(FillerPhrases[k]) + 1), Len(p))
    ELSE p

RECURSIVE fallback_from(_, _, _)
fallback_from(parts, want, bullets) ==
    IF parts = << >> THEN bullets
    ELSE LET p == Strip(CollapseWS(Head(parts)))
         IN  IF Len(p) < 6 THEN fallback_from(Tail(parts), want, bullets)
             ELSE LET got == Append(bullets, shorten_text(strip_filler(p), 150))
                  IN  IF Len(got) >= want THEN got
                      ELSE fallback_from(Tail(parts), want, got)
\* _fallback_bullets_from_summary(txt, want)
fallback_bullets_from_summary(txt, want) ==
    IF Strip(txt) = << >> THEN << >>
    ELSE fallback_from(split_clauses(txt, 1, << >>, << >>), want, << >>)

\* the loop body storing only what was generated: item["bullets"] = add
top_up_item_replacing(item, target, reply) ==
    LET bullets == Get(item, "bullets")
        need    == Max2(0, target - Len(bullets))
    IN  IF need <= 0 THEN item
        ELSE LET add0 == llm_generate_extra_bullets(reply, need)
                 add  == IF add0 = << >> /\ Strip(Get(item, "summary")) # << >>
                         THEN fallback_bullets_from_summary(Get(item, "summary"), need)
                         ELSE add0
             IN  Put(item, "bullets", add)

\* the body of the loop of top_up_bullets for one item, given the reply to its prompt
top_up_item(item, target, reply) ==
    LET bullets == Get(item, "bullets")
        need    == Max2(0, target - Len(bullets))
    IN  IF need <= 0 THEN item
        ELSE LET add0 == llm_generate_extra_bullets(reply, need)
                 add  == IF add0 = << >> /\ Strip(Get(item, "summary")) # << >>
                         THEN fallback_bullets_from_summary(Get(item, "summary"), need)
                         ELSE add0
             IN  Put(item, "bullets", bullets \o add)
\* top_up_bullets(container, target, kind): replies[i] answers the prompt of item i
top_up_bullets(container, target, replies) ==
    [i \in 1..Len(container) |-> top_up_item(container[i], target, replies[i])]

\* A reply to an extraction prompt: the call raised (ok = FALSE), or the lines of
\* resp.text that begin with { and end with }, each a JSON object (parsed = TRUE)
\* or text json.loads rejects.
\* key = (obj.get("name") or obj.get("company") or "").strip(); << >> when .strip()
\* raises because the value is not a str
item_key(obj) ==
    LET v == IF Truthy(JGet(obj, "name")) THEN JGet(obj, "name")
             ELSE IF Truthy(JGet(obj, "company")) THEN JGet(obj, "company")
             ELSE JStr(<< >>)
    IN  IF v.t = "str" THEN Strip(v.v) ELSE << >>
RECURSIVE extract_from(_, _, _, _)
extract_from(lines, existing_names, max_items, items) ==
    IF lines = << >> THEN items
    ELSE LET line == Head(lines)
             keep == /\ line.parsed
                     /\ item_key(line.obj) # << >>
                     /\ \A i \in 1..Len(existing_names) : existing_names[i] # item_key(line.obj)
             got  == IF keep THEN Append(items, line.obj) ELSE items
         IN  IF keep /\ Len(got) >= max_items THEN got
             ELSE extract_from(Tail(lines), existing_names, max_items, got)
\* _llm_extract_missing_items(raw_text, existing_names, kind, max_items), given the reply
llm_extract_missing_items(reply, existing_names, max_items) ==
    IF max_items <= 0 THEN << >>
    ELSE IF ~reply.ok THEN << >>
    ELSE extract_from(reply.lines, existing_names, max_items, << >>)

\* [ensure_text(x.get(k)) for x in entries if ensure_text(x.get(k))]
NamesOf(entries, k) ==
    SelectSeq([i \in 1..Len(entries) |-> Get(entries[i], k)], LAMBDA s : s # << >>)
\* the project appended for an extracted item
new_project(np) ==
    [name       |-> ensure_text(JGet(np, "name")),
     tech       |-> ensure_text(JGet(np, "tech")),
     link       |-> ensure_text(JGet(np, "link")),
     summary    |-> ensure_text(JGet(np, "summary")),
     start_date |-> ensure_text(JGet(np, "start_date")),
     end_date   |-> ensure_text(JGet(np, "end_date")),
     bullets    |-> TextItems(JGet(np, "bullets"))]
\* the experience appended for an extracted item
new_experience(ne) ==
    [title      |-> ensure_text(JGet(ne, "title")),
     company    |-> ensure_text(JGet(ne, "company")),
     location   |-> ensure_text(JGet(ne, "location")),
     start_date |-> ensure_text(JGet(ne, "start_date")),
     end_date   |-> ensure_text(JGet(ne, "end_date")),
     summary    |-> ensure_text(JGet(ne, "summary")),
     bullets    |-> TextItems(JGet(ne, "bullets"))]

\* the short band of expand_sparse_content, after the top-up, on the evaluated dict
expand_items(d, replies) ==
    IF approx_char_count(d) < SHORT_MAX
    THEN LET new_projects == llm_extract_missing_items(replies.new_proj,
                                 NamesOf(Get(d, "projects"), "name"), SPARSE_MAX_NEW_PROJECTS)
             new_exps     == llm_extract_missing_items(replies.new_exp,
                                 NamesOf(Get(d, "experience"), "company"),
                                 SPARSE_MAX_NEW_EXPERIENCES)
         IN  Override(d,
                 [k \in (IF new_projects = << >> THEN {} ELSE {"projects"})
                        \cup (IF new_exps = << >> THEN {} ELSE {"experience"}) |->
                     IF k = "projects"
                     THEN Get(d, "projects")
                          \o [i \in 1..Len(new_projects) |-> new_project(new_projects[i])]
                     ELSE Get(d, "experience")
                          \o [i \in 1..Len(new_exps) |-> new_experience(new_exps[i])]])
    ELSE d
\* both top_up_bullets calls of a band, on the evaluated dict; a container that is
\* missing or empty is left as it is
topped_up(d, target_exp, target_proj, replies) ==
    Override(d,
        [k \in {x \in {"experience", "projects"} : Get(d, x) # << >>} |->
            IF k = "experience"
            THEN top_up_bullets(d[k], target_exp, replies.exp)
            ELSE top_up_bullets(d[k], target_proj, replies.proj)])
\* expand_sparse_content(data, raw_text), given the replies of the model
expand_with(d, replies) ==
    IF approx_char_count(d) < SHORT_MAX
    THEN Bind2(topped_up(d, SPARSE_TARGET_BULLETS_EXP, SPARSE_TARGET_BULLETS_PROJ, replies),
               replies, expand_items)
    ELSE IF approx_char_count(d) < LONG_MIN
    THEN topped_up(d, MIN_BULLETS_MID, MIN_BULLETS_MID, replies)
    ELSE d
expand_sparse_content(data, replies) == Bind2(data, replies, expand_with)

-----------------------------------------------------------------------------
(* expand_sparse_content applied to a merged record, for every reply of the model *)

\* bound of the expansion harness
MaxExpandEntries == 1    \* experience entries, and project entries, of a record

SummaryWithFiller ==
    <<"W","o","r","k","e","d"," ","o","n"," ","a","n","d","r","o","i","d"," ","a","p","i","s",
      " ","a","n","d"," ","r","e","l","e","a","s","e"," "," ","t","o","o","l","s",","," ","o","k",".">>
ExpandExpJ(i, b, sum) ==
    JDict([title   |-> JStr(<<"t">>),
           company |-> JStr(<<"c", Digits(i)[1]>>),
           summary |-> JStr(IF sum THEN SummaryWithFiller ELSE << >>),
           bullets |-> JList([j \in 1..b |-> JStr(<<"e", Digits(j)[1]>>)])])
ExpandProjJ(i, b, sum) ==
    JDict([name    |-> JStr(<<"p", Digits(i)[1]>>),
           summary |-> JStr(IF sum THEN SummaryWithFiller ELSE << >>),
           bullets |-> JList([j \in 1..b |-> JStr(<<"q", Digits(j)[1]>>)])])
ExpandRecordJ(n, b, sum) ==
    [first_name |-> JStr(<<"F">>),
     skills     |-> JList(<<JStr(<<"k">>)>>),
     experience |-> JList([i \in 1..n |-> ExpandExpJ(i, b, sum)]),
     projects   |-> JList([i \in 1..n |-> ExpandProjJ(i, b, sum)])]
ExpandKnobs ==
    [n : 0..MaxExpandEntries, b : {0, 2, 3, 4, 5}, sum : BOOLEAN,
     target : {0, SHORT_MAX, LONG_MIN}]
ExpandInput(k) == Padded(ExpandRecordJ(k.n, k.b, k.sum), k.target)

BulletLine(c)  == [mark |-> TRUE, text |-> <<" ", "n", c>>]
\* the call raised; no text; one bullet; prose, a blank bullet and five bullets
BulletReplies ==
    { [ok |-> FALSE, lines |-> << >>],
      [ok |-> TRUE,  lines |-> << >>],
      [ok |-> TRUE,  lines |-> <<BulletLine("1")>>],
      [ok |-> TRUE,  lines |-> <<[mark |-> FALSE, text |-> <<"x">>],
                                 BulletLine("1"), [mark |-> TRUE, text |-> <<" ">>],
                                 BulletLine("2"), BulletLine("3"), BulletLine("4"),
                                 BulletLine("5")>>] }
ItemLine(obj) == [parsed |-> TRUE, obj |-> JDict(obj)]
\* the call raised; no text; a line json.loads rejects, items named as an existing
\* project and an existing company, an item whose name is a number, three new items
ItemReplies ==
    { [ok |-> FALSE, lines |-> << >>],
      [ok |-> TRUE,  lines |-> << >>],
      [ok |-> TRUE,  lines |->
          <<[parsed |-> FALSE, obj |-> JNull],
            ItemLine([name |-> JStr(<<"p", "1">>)]),
            ItemLine([name |-> JNull, company |-> JStr(<<" ", "c", "1">>)]),
            ItemLine([name |-> JNum(5)]),
            ItemLine([name |-> JStr(<<"n", "1">>),
                      bullets |-> JList(<<JStr(<<"x">>), JStr(<< >>)>>)]),
            ItemLine([name |-> JStr(<<"n", "2">>), company |-> JStr(<<"m">>)]),
            ItemLine([name |-> JStr(<<"n", "3">>)])>>] }

InitExpand ==
    /\ ppc = "merged_raw"
    /\ pin \in ExpandKnobs
    /\ pout = EmptyDict
    /\ FitOff
    /\ WsOff

\* merged = merge_structured(orig_structured, opt_structured): a sanitized record
ExpandSanitize ==
    /\ ppc = "merged_raw"
    /\ pout' = [r |-> sanitize_struct(ExpandInput(pin))]
    /\ ppc' = "merged"
    /\ UNCHANGED pin
    /\ UNCHANGED <<fitvars, wsvars>>

\* expanded = expand_sparse_content(merged, raw_text)
ExpandOnce ==
    /\ ppc = "merged"
    /\ \E re \in [1..Len(pout.r["experience"]) -> BulletReplies],
          rp \in [1..Len(pout.r["projects"]) -> BulletReplies],
          np \in ItemReplies, ne \in ItemReplies :
          pout' = [r  |-> pout.r,
                   x1 |-> expand_sparse_content(pout.r,
                              [exp |-> re, proj |-> rp, new_proj |-> np, new_exp |-> ne])]
    /\ ppc' = "expanded"
    /\ UNCHANGED pin
    /\ UNCHANGED <<fitvars, wsvars>>

NextExpand == ExpandSanitize \/ ExpandOnce

SpecExpand == InitExpand /\ [][NextExpand]_vars

-----------------------------------------------------------------------------
(* sanitize_struct applied to what the extraction service may return: a     *)
(* mapping with one field holding a JSON value of any type.                 *)

NoneWord == <<"n","o","n","e">>
NullWord == <<"n","u","l","l">>
NaWord   == <<"n","/","a">>

\* the values a field may hold
UntrustedValues == <<
    JNull,
    JNum(0),
    JNum(5),
    JStr(<< >>),
    JStr(NaWord),
    JStr(<<"a","b">>),
    JList(<< >>),
    JList(<<JStr(<< >>), JStr(NoneWord), JStr(<<"a">>), JNull, JNum(3), JList(<< >>),
            JDict(EmptyDict)>>),
    JList(<<JStr(<<"k","1">>), JStr(<<"k","2">>)>>),
    JList(<<JDict([bullets |-> JNum(5)])>>),
    JList(<<JDict([bullets |-> JList(<<JStr(<< >>), JStr(NullWord), JStr(<<"b">>)>>),
                   details |-> JList(<<JStr(<< >>), JStr(NaWord)>>),
                   name    |-> JNum(7)])>>),
    JList(<<JDict([bullets |-> JList(<<JStr(<<"b">>), JNull>>),
                   details |-> JList(<<JStr(<<"d">>)>>),
                   url     |-> JStr(<<"u">>)])>>),
    JList(<<JDict([details |-> JStr(NoneWord)])>>),
    JDict(EmptyDict),
    JDict([k |-> JNum(1)])
  >>

SanitizeFields ==
    {"first_name", "summary", "links", "skills", "experience", "projects", "education",
     "certifications", "publications", "extra"}

SanitizeKnobs == [field : SanitizeFields, val : 1..Len(UntrustedValues)]
\* the mapping: a name, one skill, and the field
SanitizeInput(k) ==
    Put(Put([first_name |-> JStr(<<"F">>)], "skills", JList(<<JStr(<<"k">>)>>)),
        k.field, UntrustedValues[k.val])

InitSanitize ==
    /\ ppc = "untrusted"
    /\ pin \in SanitizeKnobs
    /\ pout = EmptyDict
    /\ FitOff
    /\ WsOff

\* orig_structured = sanitize_struct(orig_structured)
SanitizeRun ==
    /\ ppc = "untrusted"
    /\ pout' = IF sanitize_raises(SanitizeInput(pin))
               THEN [raised |-> TRUE, r |-> EmptyDict]
               ELSE [raised |-> FALSE, r |-> sanitize_struct(SanitizeInput(pin))]
    /\ ppc' = "sanitized"
    /\ UNCHANGED pin
    /\ UNCHANGED <<fitvars, wsvars>>

NextSanitize == SanitizeRun

SpecSanitize == InitSanitize /\ [][NextSanitize]_vars

-----------------------------------------------------------------------------
(* The enrichment injectors (main.py).  The raw text enters through what    *)
(* the injectors' regular expressions find in it:                          *)
(*   linkedin   the first LinkedIn URL (none: << >>, else <<url>>)          *)
(*   github     the GitHub URLs in order of appearance                      *)
(*   location   the first `City, Region` token                              *)
(*   covered    [name, desc]: the text after "Covered:" that follows name   *)
(*   coursework [anchor, line]: the text after "Coursework:" or "Subjects:" *)
(*              that follows anchor                                         *)

\* the first match of a search, of all the matches
FirstOf(found) == IF found = << >> THEN << >> ELSE <<found[1]>>

\* `l.get("url") == u` for a dict l
UrlIs(l, u) == JGet(l, "url").t = "str" /\ JGet(l, "url").v = u

\* add(label, url) of _inject_links_if_missing
add_link(links, label, found) ==
    IF found = << >> \/ found[1] = << >> THEN links
    ELSE IF \E i \in 1..Len(links) : UrlIs(links[i], found[1]) THEN links
    ELSE Append(links, JDict([label |-> JStr(label), url |-> JStr(found[1])]))

\* _inject_links_if_missing raises: list(5), or l.get of a link that is not a dict,
\* reached by any() before a link with that url
inject_links_raises(data, raw) ==
    LET links == IF "links" \in DOMAIN data THEN data["links"] ELSE JNull
        blocks(ls, found) ==
            /\ found # << >> /\ found[1] # << >>
            /\ \E i \in 1..Len(ls) :
                  /\ ls[i].t # "dict"
                  /\ \A j \in 1..(i - 1) : ~UrlIs(ls[j], found[1])
    IN  \/ NotIterable(links)
        \/ /\ ~NotIterable(links)
           /\ \/ blocks(Items(links), raw.linkedin)
              \/ blocks(add_link(Items(links), <<"L", "i", "n", "k", "e", "d", "I", "n">>, raw.linkedin),
                        FirstOf(raw.github))

\* _inject_links_if_missing(data, raw_text)
inject_links_if_missing(data, raw) ==
    LET links == IF "links" \in DOMAIN data THEN data["links"] ELSE JNull
    IN  Put(data, "links",
            JList(add_link(add_link(Items(links), <<"L", "i", "n", "k", "e", "d", "I", "n">>, raw.linkedin),
                           <<"G", "i", "t", "H", "u", "b">>, FirstOf(raw.github))))

\* _inject_location_if_missing(data, raw_text)
inject_location_if_missing(data, raw) ==
    IF "location" \in DOMAIN data /\ Truthy(data["location"]) THEN data
    ELSE IF raw.location # << >> THEN Put(data, "location", JStr(raw.location[1]))
    ELSE data

RECURSIVE project_links_from(_, _, _)
\* the loop of _inject_project_links_if_missing: the next URL goes to the next dict
\* without a link
project_links_from(items, urls, out) ==
    IF items = << >> THEN out
    ELSE LET p == Head(items)
         IN  IF p.t = "dict" /\ ensure_text(JGet(p, "link")) = << >> /\ urls # << >>
             THEN project_links_from(Tail(items), Tail(urls),
                                     Append(out, JDict(Put(p.v, "link", JStr(Head(urls))))))
             ELSE project_links_from(Tail(items), urls, Append(out, p))

\* _inject_project_links_if_missing raises: `for p in 5`
inject_project_links_raises(data, raw) ==
    raw.github # << >> /\ "projects" \in DOMAIN data /\ NotIterable(data["projects"])

\* _inject_project_links_if_missing(data, raw_text): the dicts of the list are changed
\* in place
inject_project_links_if_missing(data, raw) ==
    IF raw.github = << >> \/ "projects" \notin DOMAIN data \/ data["projects"].t # "list"
    THEN data
    ELSE Put(data, "projects", JList(project_links_from(data["projects"].v, raw.github, << >>)))

\* the text found after `anchor` and the marker, << >> if there is none
FoundAfter(pairs, anchor) ==
    LET hit == {i \in 1..Len(pairs) : Lower(pairs[i][1]) = Lower(anchor)}
    IN  IF hit = {} THEN << >> ELSE <<pairs[SetMin(hit)][2]>>

CertWords == << <<"c", "e", "r", "t", "i", "f", "i", "c", "a", "t", "e">>, <<"c", "e", "r", "t", "i", "f", "i", "c", "a", "t", "i", "o", "n">>, <<"p", "r", "o", "f", "e", "s", "s", "i", "o", "n", "a", "l">>, <<"c", "o", "u", "r", "s", "e">>, <<"p", "r", "o", "g", "r", "a", "m">> >>
RECURSIVE remove_cert_words(_)
\* re.sub(r"(certificate|certification|professional|course|program)", "", name, flags=re.I)
remove_cert_words(s) ==
    IF s = << >> THEN << >>
    ELSE LET hit == {w \in 1..Len(CertWords) :
                        /\ Len(CertWords[w]) <= Len(s)
                        /\ Lower(SubSeq(s, 1, Len(CertWords[w]))) = CertWords[w]}
         IN  IF hit = {} THEN <<Head(s)>> \o remove_cert_words(Tail(s))
             ELSE remove_cert_words(SubSeq(s, Len(CertWords[SetMin(hit)]) + 1, Len(s)))

\* the description _backfill_cert_descriptions_from_raw gives a normalized
\* certification c that has none
cert_description(c, raw) ==
    LET found == IF c.name # << >> THEN FoundAfter(raw.covered, c.name) ELSE << >>
        desc  == IF found # << >> THEN shorten_text(found[1], 160) ELSE << >>
        key   == Strip(CollapseWS(remove_cert_words(c.name)))
    IN  IF desc # << >> THEN desc
        ELSE IF c.issuer # << >> THEN <<"C", "r", "e", "d", "e", "n", "t", "i", "a", "l", " ", "i", "s", "s", "u", "e", "d", " ", "b", "y", " ">> \o c.issuer \o <<".">>
        ELSE IF c.name # << >>
        THEN IF key # << >> THEN shorten_text(<<"C", "r", "e", "d", "e", "n", "t", "i", "a", "l", " ", "i", "n", " ">> \o key \o <<".">>, 160)
             ELSE <<"V", "e", "r", "i", "f", "i", "e", "d", " ", "c", "r", "e", "d", "e", "n", "t", "i", "a", "l", ".">>
        ELSE <<"V", "e", "r", "i", "f", "i", "e", "d", " ", "c", "r", "e", "d", "e", "n", "t", "i", "a", "l", ".">>

\* c = normalize_cert_item(c), then the description if it is missing
backfill_cert(c0, raw) ==
    LET n == normalize_cert_item(JDict([k \in DOMAIN c0 |-> JStr(c0[k])]))
    IN  IF n.description # << >> THEN n
        ELSE [n EXCEPT !.description = cert_description(n, raw)]

\* _backfill_cert_descriptions_from_raw(data, raw_text), data a sanitized record
backfill_cert_descriptions_from_raw(data, raw) ==
    Put(data, "certifications",
        [i \in 1..Len(Get(data, "certifications")) |->
            backfill_cert(data["certifications"][i], raw)])

\* the details _ensure_education_details gives an education entry e
education_details(e, raw) ==
    LET deg    == Get(e, "degree")
        inst   == Get(e, "institution")
        anchor == IF inst # << >> THEN inst ELSE deg
        found  == IF anchor # << >> THEN FoundAfter(raw.coursework, anchor) ELSE << >>
        line   == IF found # << >> THEN Strip(CollapseWS(found[1])) ELSE << >>
    IN  IF Get(e, "details") # << >> THEN e["details"]
        ELSE IF line # << >> THEN <<shorten_text(line, 120)>>
        ELSE IF deg # << >> THEN <<shorten_text(<<"P", "r", "o", "g", "r", "a", "m", ":", " ">> \o deg \o <<".">>, 120)>>
        ELSE <<<<"A", "c", "a", "d", "e", "m", "i", "c", " ", "p", "r", "o", "g", "r", "a", "m", " ", "c", "o", "m", "p", "l", "e", "t", "e", "d", ".">>>>

\* _ensure_education_details(data, raw_text), data a sanitized record
ensure_education_details(data, raw) ==
    IF "education" \notin DOMAIN data THEN data
    ELSE Put(data, "education",
             [i \in 1..Len(data["education"]) |->
                 Put(data["education"][i], "details",
                     education_details(data["education"][i], raw))])

-----------------------------------------------------------------------------
(* Each injector applied to an extracted record, and applied again to its  *)
(* own result with the same raw text.                                      *)

\* bound of the injector inputs
MaxInjectProjects == 2     \* projects of the extracted record

GithubUrls == << <<"h", "t", "t", "p", "s", ":", "/", "/", "g", "i", "t", "h", "u", "b", ".", "c", "o", "m", "/", "a">>, <<"h", "t", "t", "p", "s", ":", "/", "/", "g", "i", "t", "h", "u", "b", ".", "c", "o", "m", "/", "b">>, <<"h", "t", "t", "p", "s", ":", "/", "/", "g", "i", "t", "h", "u", "b", ".", "c", "o", "m", "/", "c">> >>
LinkedinUrl == <<"h", "t", "t", "p", "s", ":", "/", "/", "l", "i", "n", "k", "e", "d", "i", "n", ".", "c", "o", "m", "/", "i", "n", "/", "f">>

\* found: the text holds a LinkedIn URL, a location, and the "Covered:" and
\* "Coursework:" lines; urls: the number of GitHub URLs in the text
InjectRaw(k) ==
    [linkedin   |-> IF k.found THEN <<LinkedinUrl>> ELSE << >>,
     github     |-> SubSeq(GithubUrls, 1, k.urls),
     location   |-> IF k.found THEN <<<<"P", "u", "n", "e", ",", " ", "I", "n", "d", "i", "a">>>> ELSE << >>,
     covered    |-> IF k.found THEN << <<Lower(Aws), <<" ", "s", "3", " ", "a", "n", "d", " ", " ", "e", "c", "2", " ">>>> >> ELSE << >>,
     coursework |-> IF k.found THEN << <<<<"u">>, <<"a", "l", "g", "e", "b", "r", "a", ",", " ", " ", "l", "o", "g", "i", "c">>>> >> ELSE << >>]

\* np projects, the first with a link when `linked`; a GitHub link when `links`; a
\* location when `loc`; education with details when `det`
InjectRecordJ(k) ==
    LET base ==
          [first_name     |-> JStr(<<"F">>),
           skills         |-> JList(<<JStr(<<"k">>)>>),
           projects       |-> JList([i \in 1..k.np |->
                                 JDict([ProjJ(i, 1, "plain").v EXCEPT !["link"] =
                                     JStr(IF i = 1 /\ k.linked THEN <<"h", "t", "t", "p", "s", ":", "/", "/", "x", ".", "y">>
                                          ELSE << >>)])]),
           education      |-> JList(<<EduJ(1, IF k.det THEN 2 ELSE 0),
                                      JDict([degree |-> JStr(<< >>)])>>),
           certifications |-> JList(CertLists[k.certs])]
        withLinks == IF k.links
                     THEN Put(base, "links",
                              JList(<<JDict([label |-> JStr(<<"G", "i", "t", "H", "u", "b">>),
                                             url   |-> JStr(GithubUrls[1])])>>))
                     ELSE base
    IN  IF k.loc THEN Put(withLinks, "location", JStr(<<"N", "Y">>)) ELSE withLinks

InjectKnobs ==
    [np : 0..MaxInjectProjects, linked : BOOLEAN, urls : 0..2, found : BOOLEAN,
     links : BOOLEAN, loc : BOOLEAN, det : BOOLEAN, certs : 1..Len(CertLists)]

InitInject ==
    /\ ppc = "extracted"
    /\ pin \in InjectKnobs
    /\ pout = EmptyDict
    /\ FitOff
    /\ WsOff

\* the five injectors, each applied to the record as the endpoints hand it over: the
\* first three to the extraction, the last two to the sanitized record
InjectOnce ==
    /\ ppc = "extracted"
    /\ LET d   == InjectRecordJ(pin)
           s   == sanitize_struct(d)
           raw == InjectRaw(pin)
       IN  pout' = [d      |-> d,
                    s      |-> s,
                    links  |-> <<inject_links_if_missing(d, raw)>>,
                    loc    |-> <<inject_location_if_missing(d, raw)>>,
                    plinks |-> <<inject_project_links_if_missing(d, raw)>>,
                    certs  |-> <<backfill_cert_descriptions_from_raw(s, raw)>>,
                    edu    |-> <<ensure_education_details(s, raw)>>]
    /\ ppc' = "injected"
    /\ UNCHANGED pin
    /\ UNCHANGED <<fitvars, wsvars>>

\* each injector applied to its own result, with the same raw text
InjectTwice ==
    /\ ppc = "injected"
    /\ LET raw == InjectRaw(pin)
       IN  pout' = [d      |-> pout.d,
                    s      |-> pout.s,
                    links  |-> Append(pout.links, inject_links_if_missing(pout.links[1], raw)),
                    loc    |-> Append(pout.loc, inject_location_if_missing(pout.loc[1], raw)),
                    plinks |-> Append(pout.plinks,
                                      inject_project_links_if_missing(pout.plinks[1], raw)),
                    certs  |-> Append(pout.certs,
                                      backfill_cert_descriptions_from_raw(pout.certs[1], raw)),
                    edu    |-> Append(pout.edu, ensure_education_details(pout.edu[1], raw))]
    /\ ppc' = "injected_twice"
    /\ UNCHANGED pin
    /\ UNCHANGED <<fitvars, wsvars>>

NextInject == InjectOnce \/ InjectTwice

SpecInject == InitInject /\ [][NextInject]_vars

-----------------------------------------------------------------------------
(* ensure_skill_rows (main.py): the three skill rows the language model    *)
(* proposes.  A reply is << >> (the call fails, or its text holds no JSON   *)
(* object) or <<[languages, tools_platforms, concepts]>>, lists of strings. *)

RECURSIVE comma_join(_)
\* ", ".join(xs)
comma_join(xs) ==
    IF xs = << >> THEN << >>
    ELSE IF Len(xs) = 1 THEN xs[1]
    ELSE xs[1] \o <<",", " ">> \o comma_join(Tail(xs))

RECURSIVE join_until_from(_, _, _, _)
\* the loop of _join_until: out the items taken, cur the length they have joined
join_until_from(chars_limit, items, out, cur) ==
    IF items = << >> THEN out
    ELSE LET add == (IF out # << >> THEN 2 ELSE 0) + Len(Head(items))
         IN  IF cur + add <= chars_limit
             THEN join_until_from(chars_limit, Tail(items), Append(out, Head(items)),
                                  cur + add)
             ELSE out
\* variant: the joined items cut at the limit
join_until_cut(chars_limit, items) == Take(comma_join(items), chars_limit)
\* _join_until(chars_limit, items): the leading items that fit, joined by ", "
join_until(chars_limit, items) ==
    comma_join(join_until_from(chars_limit, items, << >>, 0))

NonEmpty(xs) == SelectSeq(xs, LAMBDA s : s # << >>)

\* gemini_generate_skill_rows(raw_text, job_desc): (row1, row2, row3, flat)
gemini_generate_skill_rows(reply) ==
    LET data  == IF reply = << >>
                 THEN [languages |-> << >>, tools_platforms |-> << >>, concepts |-> << >>]
                 ELSE reply[1]
        langs == NonEmpty(data.languages)
        tools == NonEmpty(data.tools_platforms)
        conc  == NonEmpty(data.concepts)
    IN  [row1 |-> join_until(90, langs),
         row2 |-> join_until(90, tools),
         row3 |-> join_until(90, conc),
         flat |-> SubSeq(langs \o tools \o conc, 1,
                         Min2(MAX_SKILLS_DEFAULT, Len(langs \o tools \o conc)))]

\* variant: the flat list of the reply replaces the skills whatever it holds
ensure_skill_rows_reply_only(data, reply) ==
    LET g == gemini_generate_skill_rows(reply)
    IN  Override(Put(data, "skills", g.flat),
                 [skills_row1 |-> g.row1, skills_row2 |-> g.row2, skills_row3 |-> g.row3])

\* generate_three_skill_rows and ensure_skill_rows(data, raw_text, job_desc): the flat
\* list replaces data["skills"] if there is one, the skills the record has are kept
\* otherwise
ensure_skill_rows(data, reply) ==
    LET g        == gemini_generate_skill_rows(reply)
        existing == NonEmpty(Get(data, "skills"))
        kept     == SubSeq(existing, 1, Min2(MAX_SKILLS_DEFAULT, Len(existing)))
        flat     == IF g.row1 = << >> /\ g.row2 = << >> /\ g.row3 = << >> THEN kept
                    ELSE IF g.flat = << >> THEN kept
                    ELSE g.flat
    IN  Override(IF flat # << >> THEN Put(data, "skills", flat) ELSE data,
                 [skills_row1 |-> g.row1, skills_row2 |-> g.row2, skills_row3 |-> g.row3])

-----------------------------------------------------------------------------
(* ensure_skill_rows applied to a compressed record (main.py): the record   *)
(* holds n skills, the language model's reply is one of SkillRowReplies.    *)

MaxSkillsIn == 13

\* a text of n characters c
Filled(n, c) == [i \in 1..n |-> c]
SkillName(c, i) == <<c>> \o Digits(i)
SkillNames(c, n) == [i \in 1..n |-> SkillName(c, i)]
NoRows == [languages |-> << >>, tools_platforms |-> << >>, concepts |-> << >>]
\* the replies: the call fails or its text is not JSON; an object without lists;
\* lists with an empty item; one item longer than a row; more items than the
\* flat list takes; concepts only
SkillRowReplies == <<
    << >>,
    <<NoRows>>,
    <<[languages |-> <<<<"G", "o">>, << >>, <<"P", "y", "t", "h", "o", "n">>>>,
       tools_platforms |-> <<<<"D", "o", "c", "k", "e", "r">>>>,
       concepts |-> << >>]>>,
    <<[NoRows EXCEPT !.languages = <<Filled(91, "x")>>]>>,
    <<[languages |-> SkillNames("l", 5), tools_platforms |-> SkillNames("t", 5),
       concepts |-> SkillNames("c", 4)]>>,
    <<[NoRows EXCEPT !.concepts = SkillNames("c", 2)]>>
  >>
SkillKnobs == [n : 0..MaxSkillsIn, reply : 1..Len(SkillRowReplies)]
SkillsRecord(k) == [first_name |-> <<"F">>, skills |-> SkillNames("s", k.n)]

InitSkills ==
    /\ ppc = "compressed_skills"
    /\ pin \in SkillKnobs
    /\ pout = EmptyDict
    /\ FitOff
    /\ WsOff

\* data = ensure_skill_rows(data, text, job_desc=jd)
SkillRowsRun ==
    /\ ppc = "compressed_skills"
    /\ pout' = ensure_skill_rows(SkillsRecord(pin), SkillRowReplies[pin.reply])
    /\ ppc' = "rowed"
    /\ UNCHANGED pin
    /\ UNCHANGED <<fitvars, wsvars>>

NextSkills == SkillRowsRun

SpecSkills == InitSkills /\ [][NextSkills]_vars

-----------------------------------------------------------------------------
(* _join_until(90, items) applied to lists of items of chosen lengths       *)
(* (main.py); the item at position i is made of the i-th letter.            *)

MaxJoinItems == 3

ROW_CHARS == 90
JoinLens == {0, 1, 10, 43, 44, 45, 50, 88, 90, 91}
JoinChars == <<"a", "b", "c", "d", "e">>
JoinItems(lens) == [i \in 1..Len(lens) |-> Filled(lens[i], JoinChars[i])]

InitJoin ==
    /\ ppc = "items"
    /\ pin \in UNION {[1..n -> JoinLens] : n \in 0..MaxJoinItems}
    /\ pout = EmptyDict
    /\ FitOff
    /\ WsOff

\* row1 = _join_until(90, langs)
JoinRun ==
    /\ ppc = "items"
    /\ pout' = [row |-> join_until(ROW_CHARS, JoinItems(pin))]
    /\ ppc' = "joined"
    /\ UNCHANGED pin
    /\ UNCHANGED <<fitvars, wsvars>>

NextJoin == JoinRun

SpecJoin == InitJoin /\ [][NextJoin]_vars

-----------------------------------------------------------------------------
(* normalize_cert_item applied to a "|"-delimited string (main.py): a name  *)
(* followed by segments drawn from CertSegments.                            *)

MaxCertSegments == 3

CertName == <<"A", "W", "S", " ", "C", "e", "r", "t", "i", "f", "i", "e", "d">>
\* an issuer, two years, a link, a text that mentions a link, a plain text
CertSegments == <<
    <<"A", "m", "a", "z", "o", "n">>,
    <<"2", "0", "2", "3">>,
    <<"2", "0", "2", "4">>,
    <<"h", "t", "t", "p", "s", ":", "/", "/", "a", "w", "s", ".", "e", "x", "a", "m", "p", "l", "e", "/", "c", "e", "r", "t">>,
    <<"s", "e", "e", " ", "h", "t", "t", "p", ":", "/", "/", "a", ".", "b">>,
    <<"C", "l", "o", "u", "d">> >>
RECURSIVE BarJoined(_)
\* " | ".join(xs)
BarJoined(xs) ==
    IF Len(xs) = 1 THEN xs[1] ELSE xs[1] \o <<" ", "|", " ">> \o BarJoined(Tail(xs))
CertParts(k) == <<CertName>> \o [i \in 1..Len(k) |-> CertSegments[k[i]]]

InitCert ==
    /\ ppc = "cert_text"
    /\ pin \in UNION {[1..n -> 1..Len(CertSegments)] : n \in 1..MaxCertSegments}
    /\ pout = EmptyDict
    /\ FitOff
    /\ WsOff

\* norm = [normalize_cert_item(c) for c in certs]
CertRun ==
    /\ ppc = "cert_text"
    /\ pout' = normalize_cert_item(JStr(BarJoined(CertParts(pin))))
    /\ ppc' = "cert_item"
    /\ UNCHANGED pin
    /\ UNCHANGED <<fitvars, wsvars>>

NextCert == CertRun

SpecCert == InitCert /\ [][NextCert]_vars

-----------------------------------------------------------------------------
(* One optimize-and-render request (generate_resume_pdf_latex and           *)
(* generate_resume_pdf_json, which run the same statements): a step is one  *)
(* stage of the handler.  pout.log holds, for each stage run, its name and  *)
(* the positions in the log of the stages whose result it was given (0: an  *)
(* extraction).  An exception ends the request with a 500.                  *)

\* what the extraction service returns for the original text
PipeExtractions == <<
    InjectRecordJ([np |-> 2, linked |-> FALSE, links |-> TRUE, loc |-> FALSE,
                   det |-> FALSE, certs |-> 3]),
    InjectRecordJ([np |-> 1, linked |-> TRUE, links |-> FALSE, loc |-> TRUE,
                   det |-> TRUE, certs |-> 1]),
    [first_name |-> JStr(<<"F">>), links |-> JList(<<JStr(<<"h", "t", "t", "p", "s", ":", "/", "/", "x", ".", "y">>)>>)],
    [first_name |-> JStr(<<"F">>), skills |-> JNum(5)]
  >>
\* and for the optimized text
PipeOptimized == <<
    InjectRecordJ([np |-> 1, linked |-> FALSE, links |-> FALSE, loc |-> FALSE,
                   det |-> FALSE, certs |-> 1]),
    [first_name |-> JStr(<<"F">>), projects |-> JNum(5)]
  >>
SkillReplies == {
    << >>,
    <<[languages |-> <<<<"G", "o">>, << >>, <<"P", "y", "t", "h", "o", "n">>>>, tools_platforms |-> <<<<"D", "o", "c", "k", "e", "r">>>>,
       concepts |-> << >>]>> }

PipeKnobs == [x : 1..Len(PipeExtractions), found : BOOLEAN, urls : 0..1]

Logged(stage, of) == Append(pout.log, [stage |-> stage, of |-> of])
\* the position in the log of the last run of a stage
LastRun(stage) == SetMax({i \in 1..Len(pout.log) : pout.log[i].stage = stage})
PipeFail == ppc' = "failed" /\ pout' = [pout EXCEPT !.status = 500]
\* the three injectors the handlers call on an extraction
inject_extracted(d, raw) ==
    inject_project_links_if_missing(
        inject_location_if_missing(inject_links_if_missing(d, raw), raw), raw)
inject_extracted_raises(d, raw) ==
    \/ inject_links_raises(d, raw)
    \/ inject_project_links_raises(d, raw)

InitPipe ==
    /\ ppc = "start"
    /\ pin \in PipeKnobs
    /\ pout = [log |-> << >>, status |-> 0, orig |-> EmptyDict, opt |-> EmptyDict,
               data |-> EmptyDict]
    /\ FitOff
    /\ WsOff

\* orig_structured = llm_service.extract_resume_info(text), and the injectors
PipeEnrichOrig ==
    /\ ppc = "start"
    /\ \E extracted \in BOOLEAN :
          IF ~extracted \/ inject_extracted_raises(PipeExtractions[pin.x], InjectRaw(pin))
          THEN PipeFail
          ELSE /\ pout' = [pout EXCEPT
                              !.orig = inject_extracted(PipeExtractions[pin.x], InjectRaw(pin)),
                              !.log  = Logged("Enrich", {0})]
               /\ ppc' = "orig_enriched"
    /\ UNCHANGED pin
    /\ UNCHANGED <<fitvars, wsvars>>

\* orig_structured = sanitize_struct(orig_structured)
PipeSanitizeOrig ==
    /\ ppc = "orig_enriched"
    /\ IF sanitize_raises(pout.orig)
       THEN PipeFail
       ELSE /\ pout' = [pout EXCEPT !.orig = sanitize_struct(pout.orig),
                                    !.log  = Logged("Sanitize", {Len(pout.log)})]
            /\ ppc' = "orig_sanitized"
    /\ UNCHANGED pin
    /\ UNCHANGED <<fitvars, wsvars>>

\* optimized_text = optimize_resume_text(text, jd); opt_structured =
\* llm_service.extract_resume_info(optimized_text), {} if that raises; the injectors
PipeEnrichOpt ==
    /\ ppc = "orig_sanitized"
    /\ \E optimized \in BOOLEAN, o \in 0..Len(PipeOptimized) :
          LET opt == IF o = 0 THEN EmptyDict ELSE PipeOptimized[o]
          IN  IF ~optimized \/ inject_extracted_raises(opt, InjectRaw(pin))
              THEN PipeFail
              ELSE /\ pout' = [pout EXCEPT !.opt = inject_extracted(opt, InjectRaw(pin)),
                                           !.log = Logged("Enrich", {0})]
                   /\ ppc' = "opt_enriched"
    /\ UNCHANGED pin
    /\ UNCHANGED <<fitvars, wsvars>>

\* opt_structured = sanitize_struct(opt_structured)
PipeSanitizeOpt ==
    /\ ppc = "opt_enriched"
    /\ IF sanitize_raises(pout.opt)
       THEN PipeFail
       ELSE /\ pout' = [pout EXCEPT !.opt = sanitize_struct(pout.opt),
                                    !.log = Logged("Sanitize", {Len(pout.log)})]
            /\ ppc' = "opt_sanitized"
    /\ UNCHANGED pin
    /\ UNCHANGED <<fitvars, wsvars>>

\* merged = merge_structured(orig_structured, opt_structured)
PipeMerge ==
    /\ ppc = "opt_sanitized"
    /\ pout' = [pout EXCEPT !.data = merge_structured(AsJson(pout.orig), AsJson(pout.opt)),
                            !.log  = Logged("Merge", {2, Len(pout.log)})]
    /\ ppc' = "merged"
    /\ UNCHANGED pin
    /\ UNCHANGED <<fitvars, wsvars>>

\* merged = _backfill_cert_descriptions_from_raw(merged, text);
\* merged = _ensure_education_details(merged, text)
PipeBackfill ==
    /\ ppc = "merged"
    /\ pout' = [pout EXCEPT
                   !.data = ensure_education_details(
                                backfill_cert_descriptions_from_raw(pout.data, InjectRaw(pin)),
                                InjectRaw(pin)),
                   !.log  = Logged("Enrich", {Len(pout.log)})]
    /\ ppc' = "backfilled"
    /\ UNCHANGED pin
    /\ UNCHANGED <<fitvars, wsvars>>

\* merged = expand_sparse_content(merged, text)
PipeExpand ==
    /\ ppc = "backfilled"
    /\ \E re \in BulletReplies, np \in ItemReplies :
          pout' = [pout EXCEPT
                      !.data = expand_sparse_content(pout.data,
                                   [exp      |-> [i \in 1..Len(pout.data["experience"]) |-> re],
                                    proj     |-> [i \in 1..Len(pout.data["projects"]) |-> re],
                                    new_proj |-> np,
                                    new_exp  |-> np]),
                      !.log  = Logged("Expand", {Len(pout.log)})]
    /\ ppc' = "expanded"
    /\ UNCHANGED pin
    /\ UNCHANGED <<fitvars, wsvars>>

\* resume = ResumeInfo(**merged); data = compress_payload_for_one_page(resume.dict())
PipeCompress ==
    /\ ppc = "expanded"
    /\ pout' = [pout EXCEPT !.data = compress_payload_for_one_page(pout.data),
                            !.log  = Logged("Compress", {Len(pout.log)})]
    /\ ppc' = "compressed"
    /\ UNCHANGED pin
    /\ UNCHANGED <<fitvars, wsvars>>

\* data = ensure_skill_rows(data, text, job_desc=jd)
PipeSkillRows ==
    /\ ppc = "compressed"
    /\ \E reply \in SkillReplies :
          pout' = [pout EXCEPT !.data = ensure_skill_rows(pout.data, reply),
                               !.log  = Logged("SkillRows", {Len(pout.log)})]
    /\ ppc' = "skill_rows"
    /\ UNCHANGED pin
    /\ UNCHANGED <<fitvars, wsvars>>

\* data = enforce_section_order(data)
PipeEnforce ==
    /\ ppc = "skill_rows"
    /\ pout' = [pout EXCEPT !.data = enforce_section_order(pout.data),
                            !.log  = Logged("EnforceOrder", {Len(pout.log)})]
    /\ ppc' = "ordered"
    /\ UNCHANGED pin
    /\ UNCHANGED <<fitvars, wsvars>>

\* pdf_bytes = render_and_compile_one_page(env, data), and the response
PipeFit ==
    /\ ppc = "ordered"
    /\ \E fits \in BOOLEAN :
          /\ pout' = [pout EXCEPT !.status = IF fits THEN 200 ELSE 500,
                                  !.log    = Logged("Fit", {Len(pout.log)})]
          /\ ppc' = IF fits THEN "done" ELSE "failed"
    /\ UNCHANGED pin
    /\ UNCHANGED <<fitvars, wsvars>>

NextPipe ==
    \/ PipeEnrichOrig \/ PipeSanitizeOrig \/ PipeEnrichOpt \/ PipeSanitizeOpt
    \/ PipeMerge \/ PipeBackfill \/ PipeExpand \/ PipeCompress \/ PipeSkillRows
    \/ PipeEnforce \/ PipeFit

SpecPipe == InitPipe /\ [][NextPipe]_vars

-----------------------------------------------------------------------------
(* The workspace store of one user and its request handlers                *)
(* (routers/workspace.py, routers/patch.py, routers/versions.py).          *)
(*                                                                         *)
(* The handlers are plain `def` endpoints, which the server runs on worker *)
(* threads: the statements of two requests interleave.  A step is one file *)
(* read or write (every file is written whole) with the local computation  *)
(* around it.  Timestamps and version names are left out.  A resume        *)
(* document is reduced to its fullName and its skills.                     *)

\* bound of the workspace model
MaxRequests == 2         \* requests begun, over all threads

Clients == {"t1", "t2"}
\* the ids uuid4() hands out, in the order it hands them out
VidPool == <<"v1", "v2">>
Vids    == {VidPool[i] : i \in 1..Len(VidPool)}
NoVid   == "None"
Modes   == {"workspace", "overwrite_version", "snapshot_on_save"}

\* --- normalizers.py ---

CharRank(c) ==
    IF \E i \in 1..Len(LowerCase) : LowerCase[i] = c
    THEN CHOOSE i \in 1..Len(LowerCase) : LowerCase[i] = c
    ELSE 0
RECURSIVE LexLeq(_, _)
LexLeq(a, b) ==
    IF a = << >> THEN TRUE
    ELSE IF b = << >> THEN FALSE
    ELSE IF CharRank(Head(a)) # CharRank(Head(b)) THEN CharRank(Head(a)) < CharRank(Head(b))
    ELSE LexLeq(Tail(a), Tail(b))
RECURSIVE SortedByLower(_)
\* sorted(S, key=str.lower)
SortedByLower(S) ==
    IF S = {} THEN << >>
    ELSE LET m == CHOOSE x \in S : \A y \in S : LexLeq(Lower(x), Lower(y))
         IN  <<m>> \o SortedByLower(S \ {m})
\* dedupe_sorted(xs)
dedupe_sorted(xs) ==
    IF xs.t # "list" THEN << >>
    ELSE SortedByLower({Strip(xs.v[i].v) : i \in {j \in 1..Len(xs.v) : Strip(xs.v[j].v) # << >>}})

\* ResumeForm(**form) accepts the form: skills is a list of str.  (No request body
\* drawn here gives skills as a dict, which the code flattens before validating.)
form_valid(form) ==
    /\ form["skills"].t = "list"
    /\ \A i \in 1..Len(form["skills"].v) : form["skills"].v[i].t = "str"
\* normalize_resume(form): the normalized document, or the validation error raised
normalize_resume(form) ==
    IF form_valid(form)
    THEN [ok  |-> TRUE,
          doc |-> [fullName |-> ensure_text(form["fullName"]),
                   skills   |-> dedupe_sorted(form["skills"])]]
    ELSE [ok |-> FALSE, doc |-> [fullName |-> << >>, skills |-> << >>]]

\* a stored document read back: json.loads(path.read_text())
FormOf(doc) == [fullName |-> JStr(doc.fullName), skills |-> StrItems(doc.skills)]

\* --- patching.py ---
PatchOps == {"none", "add_skill", "bad_path"}
\* apply_json_patch(doc, ops): the patched document, or the exception raised
apply_json_patch(doc, ops) ==
    CASE ops = "none"      -> [ok |-> TRUE, doc |-> doc]
      [] ops = "add_skill" -> [ok |-> TRUE,
                               doc |-> [doc EXCEPT !.skills = Append(@, <<"a", "a">>)]]
      [] OTHER             -> [ok |-> FALSE, doc |-> doc]

\* --- request bodies ---
Payloads ==
    << [fullName |-> JStr(<<"A">>), skills |-> JList(<<JStr(<<"b">>), JStr(<<" ">>), JStr(<<"a">>), JStr(<<"b">>)>>)],
      [fullName |-> JStr(<<"A">>), skills |-> JNum(7)] >>
PatchBase == [fullName |-> JStr(<<"A">>), skills |-> JList(<<JStr(<<"b">>), JStr(<<"a">>)>>)]
EmptyForm == [fullName |-> JNull, skills |-> JList(<< >>)]

\* --- workspace.py ---

\* the default resume of _read_current, and DEFAULT_META
EmptyResume  == [fullName |-> << >>, skills |-> << >>]
DEFAULT_META == [rev |-> 0, selectedVersionId |-> NoVid, autosaveMode |-> "workspace"]

\* _read_current(uid)
read_current(dataf, metaf) ==
    [rev               |-> IF metaf = << >> THEN DEFAULT_META.rev ELSE metaf[1].rev,
     data              |-> IF dataf = << >> THEN EmptyResume ELSE dataf[1],
     selectedVersionId |-> IF metaf = << >> THEN DEFAULT_META.selectedVersionId
                           ELSE metaf[1].selectedVersionId,
     autosaveMode      |-> IF metaf = << >> THEN DEFAULT_META.autosaveMode
                           ELSE metaf[1].autosaveMode]

StoredRev == read_current(wdata, wmeta).rev

\* X-Resume-Rev: << >> when the header is absent, else <<rev>>
\* `x_resume_rev is not None and int(x_resume_rev) != int(current["rev"])`, taken as
\* a conflict only when the header is behind the stored revision
rev_conflict_if_behind(hdr, rev) == hdr # << >> /\ hdr[1] < rev
\* x_resume_rev is not None and int(x_resume_rev) != int(current["rev"])
rev_conflict(hdr, rev) == hdr # << >> /\ hdr[1] # rev

\* the headers a client sends: none, the stored revision, one behind it, one ahead
Headers == {<< >>} \cup {<<r>> : r \in {StoredRev - 1, StoredRev, StoredRev + 1} \cap Nat}

IdleLoc ==
    [op |-> "none", hdr |-> << >>, form |-> EmptyForm,
     doc |-> EmptyResume, over_sel |-> << >>, over_mode |-> << >>,
     rev |-> 0, sel |-> NoVid, mode |-> "workspace",
     ws_state |-> [rev |-> 0, data |-> EmptyResume]]
NoResp == [status |-> 0, error |-> "", hdr |-> << >>, serverRev |-> << >>]
Resp(hdr, status, error, serverRev) ==
    [status |-> status, error |-> error, hdr |-> hdr, serverRev |-> serverRev]

\* the stores a request can find: a new user's, and one where a version has been
\* snapshotted and selected and the mode set to overwrite_version
FreshStore ==
    [data |-> << >>, meta |-> << >>, vfiles |-> [v \in Vids |-> << >>], idx |-> << >>]
SelectedStore ==
    [data   |-> <<[fullName |-> <<"A">>, skills |-> <<<<"a">>, <<"b">>>>]>>,
     meta   |-> <<[rev |-> 3, selectedVersionId |-> "v1",
                   autosaveMode |-> "overwrite_version"]>>,
     vfiles |-> [v \in Vids |-> IF v = "v1"
                               THEN <<[fullName |-> <<"A">>, skills |-> <<<<"a">>, <<"b">>>>]>>
                               ELSE << >>],
     idx    |-> <<"v1">>]

InitWs ==
    /\ \E st \in {FreshStore, SelectedStore} :
          /\ wdata = st.data
          /\ wmeta = st.meta
          /\ wvfiles = st.vfiles
          /\ widx = st.idx
    /\ wpc = [c \in Clients |-> "idle"]
    /\ wloc = [c \in Clients |-> IdleLoc]
    /\ wresp = NoResp
    /\ wstarted = 0
    /\ FitOff
    /\ PureOff

\* the worker threads are interchangeable: a request is taken by the first idle one
Accepts(c) ==
    /\ wpc[c] = "idle"
    /\ \A d \in Clients : (d = "t1" /\ c = "t2") => wpc[d] # "idle"
    /\ wstarted < MaxRequests

\* the request of thread c ends with a response (the header is kept for a 409 only)
WsRespond(c, status, error) ==
    /\ wresp' = Resp(<< >>, status, error, << >>)
    /\ wpc' = [wpc EXCEPT ![c] = "idle"]
    /\ wloc' = [wloc EXCEPT ![c] = IdleLoc]

\* the request of thread c is refused before it has changed anything
WsRefuse(hdr, status, error, serverRev) ==
    /\ wresp' = Resp(hdr, status, error, serverRev)
    /\ UNCHANGED <<wpc, wloc>>

\* the request of thread c goes on to _write_current with these locals (ws_state:
\* what resume_patch read with ws_state = _read_current(uid))
WsProceed(c, op, hdr, form, over_sel, over_mode) ==
    /\ wloc' = [wloc EXCEPT ![c] =
                  [IdleLoc EXCEPT !.op = op, !.hdr = hdr, !.form = form,
                                  !.over_sel = over_sel, !.over_mode = over_mode,
                                  !.ws_state =
                                      IF op = "patch"
                                      THEN [rev  |-> read_current(wdata, wmeta).rev,
                                            data |-> read_current(wdata, wmeta).data]
                                      ELSE IdleLoc.ws_state]]
    /\ wpc' = [wpc EXCEPT ![c] = "w_read"]
    /\ UNCHANGED wresp

\* workspace_save: current = _read_current(uid) and the revision check
WsSave(c) ==
    /\ Accepts(c)
    /\ wstarted' = wstarted + 1
    /\ \E hdr \in Headers, p \in 1..Len(Payloads) :
          IF rev_conflict(hdr, read_current(wdata, wmeta).rev)
          THEN WsRefuse(hdr, 409, "rev_conflict", <<read_current(wdata, wmeta).rev>>)
          ELSE WsProceed(c, "save", hdr, Payloads[p], << >>, << >>)
    /\ UNCHANGED <<wdata, wmeta, wvfiles, widx>>
    /\ UNCHANGED <<fitvars, purevars>>

\* resume_patch: ws_state = _read_current(uid), the revision check, and
\* updated = normalize_resume(apply_json_patch(normalize_resume(base_doc), ops))
WsPatch(c) ==
    /\ Accepts(c)
    /\ wstarted' = wstarted + 1
    /\ \E hdr \in Headers, ops \in PatchOps :
          LET patched == apply_json_patch(normalize_resume(PatchBase).doc, ops)
          IN  IF rev_conflict(hdr, read_current(wdata, wmeta).rev)
              THEN WsRefuse(hdr, 409, "rev_conflict", <<read_current(wdata, wmeta).rev>>)
              ELSE IF ~patched.ok
              THEN WsRefuse(<< >>, 400, "patch failed", << >>)
              ELSE WsProceed(c, "patch", hdr,
                             FormOf(normalize_resume(FormOf(patched.doc)).doc), << >>, << >>)
    /\ UNCHANGED <<wdata, wmeta, wvfiles, widx>>
    /\ UNCHANGED <<fitvars, purevars>>

\* workspace_select: the version file is read, or the current workspace is
WsSelect(c) ==
    /\ Accepts(c)
    /\ wstarted' = wstarted + 1
    /\ \E version_id \in {NoVid} \cup Vids :
          IF version_id # NoVid
          THEN IF wvfiles[version_id] = << >>
               THEN WsRefuse(<< >>, 404, "Version not found", << >>)
               ELSE WsProceed(c, "select", << >>, FormOf(wvfiles[version_id][1]),
                              <<version_id>>, << >>)
          ELSE WsProceed(c, "select", << >>, FormOf(read_current(wdata, wmeta).data),
                         <<NoVid>>, << >>)
    /\ UNCHANGED <<wdata, wmeta, wvfiles, widx>>
    /\ UNCHANGED <<fitvars, purevars>>

\* workspace_mode: the mode is validated and the current workspace read
WsMode(c) ==
    /\ Accepts(c)
    /\ wstarted' = wstarted + 1
    /\ \E mode \in Modes \cup {"bogus"} :
          IF mode \notin Modes
          THEN WsRefuse(<< >>, 400, "Invalid mode", << >>)
          ELSE WsProceed(c, "mode", << >>, FormOf(read_current(wdata, wmeta).data),
                         << >>, <<mode>>)
    /\ UNCHANGED <<wdata, wmeta, wvfiles, widx>>
    /\ UNCHANGED <<fitvars, purevars>>

\* _write_current: current = _read_current(uid); rev = int(current["rev"]) + 1;
\* data = normalize_resume(data)
WsWriteRead(c) ==
    /\ wpc[c] = "w_read"
    /\ LET current == read_current(wdata, wmeta)
           nr      == normalize_resume(wloc[c].form)
       IN  IF ~nr.ok
           THEN WsRespond(c, IF wloc[c].op = "patch" THEN 400 ELSE 500,
                          "validation error")
           ELSE /\ wloc' = [wloc EXCEPT ![c].rev  = current.rev + 1,
                                        ![c].sel  = current.selectedVersionId,
                                        ![c].mode = current.autosaveMode,
                                        ![c].doc  = nr.doc,
                                        ![c].form = EmptyForm]
                /\ wpc' = [wpc EXCEPT ![c] = "w_data"]
                /\ UNCHANGED wresp
    /\ UNCHANGED <<wdata, wmeta, wvfiles, widx, wstarted>>
    /\ UNCHANGED <<fitvars, purevars>>

\* _write_current: cur.write_text(json.dumps(data))
WsWriteData(c) ==
    /\ wpc[c] = "w_data"
    /\ wdata' = <<wloc[c].doc>>
    /\ wpc' = [wpc EXCEPT ![c] = "w_meta"]
    /\ UNCHANGED <<wmeta, wvfiles, widx, wloc, wresp, wstarted>>
    /\ UNCHANGED <<fitvars, purevars>>

\* the meta _write_current builds: rev, the selection and mode it read, the overrides
meta_to_write(loc) ==
    [rev               |-> loc.rev,
     selectedVersionId |-> IF loc.over_sel # << >> THEN loc.over_sel[1] ELSE loc.sel,
     autosaveMode      |-> IF loc.over_mode # << >> THEN loc.over_mode[1] ELSE loc.mode]

\* _write_current: meta.write_text(json.dumps(meta_obj)), and the return to the handler
WsWriteMeta(c) ==
    /\ wpc[c] = "w_meta"
    /\ wmeta' = <<meta_to_write(wloc[c])>>
    /\ wloc' = [wloc EXCEPT ![c].sel  = meta_to_write(wloc[c]).selectedVersionId,
                            ![c].mode = meta_to_write(wloc[c]).autosaveMode]
    /\ wpc' = [wpc EXCEPT ![c] = IF wloc[c].op = "patch" THEN "autosave" ELSE "finish"]
    /\ UNCHANGED <<wdata, wvfiles, widx, wresp, wstarted>>
    /\ UNCHANGED <<fitvars, purevars>>

\* the overwrite done for a selected version whatever the autosave mode is
WsOverwriteAnyMode(c) ==
    /\ wpc[c] = "autosave"
    /\ IF wloc[c].sel # NoVid
       THEN IF wvfiles[wloc[c].sel] = << >>
            THEN /\ WsRespond(c, 404, "Version not found")
                 /\ UNCHANGED wvfiles
            ELSE /\ wvfiles' = [wvfiles EXCEPT ![wloc[c].sel] = <<wloc[c].doc>>]
                 /\ wpc' = [wpc EXCEPT ![c] = "finish"]
                 /\ UNCHANGED <<wloc, wresp>>
       ELSE /\ wpc' = [wpc EXCEPT ![c] = "finish"]
            /\ UNCHANGED <<wvfiles, wloc, wresp>>
    /\ UNCHANGED <<wdata, wmeta, widx, wstarted>>
    /\ UNCHANGED <<fitvars, purevars>>
\* resume_patch: if mode == "overwrite_version" and selected_vid: overwrite_version(...)
WsOverwrite(c) ==
    /\ wpc[c] = "autosave"
    /\ IF wloc[c].mode = "overwrite_version" /\ wloc[c].sel # NoVid
       THEN IF wvfiles[wloc[c].sel] = << >>
            THEN /\ WsRespond(c, 404, "Version not found")
                 /\ UNCHANGED wvfiles
            ELSE /\ wvfiles' = [wvfiles EXCEPT ![wloc[c].sel] = <<wloc[c].doc>>]
                 /\ wpc' = [wpc EXCEPT ![c] = "finish"]
                 /\ UNCHANGED <<wloc, wresp>>
       ELSE /\ wpc' = [wpc EXCEPT ![c] = "finish"]
            /\ UNCHANGED <<wvfiles, wloc, wresp>>
    /\ UNCHANGED <<wdata, wmeta, widx, wstarted>>
    /\ UNCHANGED <<fitvars, purevars>>

\* the version ids uuid4() has not handed out yet
FreshVids == {i \in 1..Len(VidPool) : wvfiles[VidPool[i]] = << >>}

\* the end of the handler: the snapshot (save_version writes the version file and
\* puts its row first in the index) when one is asked for, the rendering of
\* resume_patch, the response
WsFinish(c) ==
    /\ wpc[c] = "finish"
    /\ \E snapshot \in BOOLEAN, render_ok \in BOOLEAN :
          LET op   == wloc[c].op
              snap == CASE op = "save"  -> snapshot
                        [] op = "patch" -> wloc[c].mode = "snapshot_on_save" \/ snapshot
                        [] OTHER        -> FALSE
          IN  /\ (op \notin {"save", "patch"}) => ~snapshot
              /\ (op # "patch") => render_ok
              /\ snap => FreshVids # {}
              /\ IF snap
                 THEN /\ wvfiles' = [wvfiles EXCEPT ![VidPool[SetMin(FreshVids)]] =
                                                        <<wloc[c].doc>>]
                      /\ widx' = <<VidPool[SetMin(FreshVids)]>> \o widx
                 ELSE UNCHANGED <<wvfiles, widx>>
              /\ IF render_ok
                 THEN WsRespond(c, 200, "")
                 ELSE WsRespond(c, 400, "render failed")
    /\ UNCHANGED <<wdata, wmeta, wstarted>>
    /\ UNCHANGED <<fitvars, purevars>>

NextWs ==
    \E c \in Clients :
        \/ WsSave(c)
        \/ WsPatch(c)
        \/ WsSelect(c)
        \/ WsMode(c)
        \/ WsWriteRead(c)
        \/ WsWriteData(c)
        \/ WsWriteMeta(c)
        \/ WsOverwrite(c)
        \/ WsFinish(c)

SpecWs == InitWs /\ [][NextWs]_vars

-----------------------------------------------------------------------------
(* The version endpoints (routers/versions.py) next to the workspace       *)
(* handlers.  Each is one step: the version file is written whole, and the  *)
(* index, which holds ids and names, is read by no workspace handler.       *)
(* rename_version changes a name in the index only, and names are left out. *)

\* the documents a client posts to the version endpoints
VersionPayloads ==
    << [fullName |-> JStr(<<"B">>), skills |-> JList(<<JStr(<<"c">>)>>)],
       [fullName |-> JStr(<<"B">>), skills |-> JNum(7)] >>

\* save_version: the normalized payload is stored under a new id, first in the index
VerSave ==
    /\ wstarted < MaxRequests
    /\ wstarted' = wstarted + 1
    /\ FreshVids # {}
    /\ \E p \in 1..Len(VersionPayloads) :
          LET nr == normalize_resume(VersionPayloads[p])
          IN  IF nr.ok
              THEN /\ wvfiles' = [wvfiles EXCEPT ![VidPool[SetMin(FreshVids)]] = <<nr.doc>>]
                   /\ widx' = <<VidPool[SetMin(FreshVids)]>> \o widx
                   /\ wresp' = Resp(<< >>, 200, "", << >>)
              ELSE /\ wresp' = Resp(<< >>, 500, "validation error", << >>)
                   /\ UNCHANGED <<wvfiles, widx>>
    /\ UNCHANGED <<wdata, wmeta, wpc, wloc>>
    /\ UNCHANGED <<fitvars, purevars>>

\* overwrite_version: 404 if the file is not there, else the normalized payload
\* replaces its content
VerOverwrite ==
    /\ wstarted < MaxRequests
    /\ wstarted' = wstarted + 1
    /\ \E v \in Vids, p \in 1..Len(VersionPayloads) :
          LET nr == normalize_resume(VersionPayloads[p])
          IN  IF wvfiles[v] = << >>
              THEN /\ wresp' = Resp(<< >>, 404, "Version not found", << >>)
                   /\ UNCHANGED wvfiles
              ELSE IF nr.ok
              THEN /\ wvfiles' = [wvfiles EXCEPT ![v] = <<nr.doc>>]
                   /\ wresp' = Resp(<< >>, 200, "", << >>)
              ELSE /\ wresp' = Resp(<< >>, 500, "validation error", << >>)
                   /\ UNCHANGED wvfiles
    /\ UNCHANGED <<wdata, wmeta, widx, wpc, wloc>>
    /\ UNCHANGED <<fitvars, purevars>>

\* delete_version: the row leaves the index and the file is unlinked if it is there
VerDelete ==
    /\ wstarted < MaxRequests
    /\ wstarted' = wstarted + 1
    /\ \E v \in Vids :
          /\ widx' = SelectSeq(widx, LAMBDA id : id # v)
          /\ wvfiles' = [wvfiles EXCEPT ![v] = << >>]
    /\ wresp' = Resp(<< >>, 200, "", << >>)
    /\ UNCHANGED <<wdata, wmeta, wpc, wloc>>
    /\ UNCHANGED <<fitvars, purevars>>

NextVer == NextWs \/ VerSave \/ VerOverwrite \/ VerDelete

SpecVer == InitWs /\ [][NextVer]_vars

-----------------------------------------------------------------------------
(* Properties of render_and_compile_one_page, checked under SpecFit and    *)
(* SpecFitFair                                                             *)

\* the errors a compile step raises
CompileErrors ==
    {[kind |-> "raise", exc |-> "HTTPException", status |-> 500,
      detail |-> "pdflatex is not installed or not in PATH"],
     [kind |-> "raise", exc |-> "RuntimeError", status |-> 0,
      detail |-> "LaTeX compilation failed"],
     [kind |-> "raise", exc |-> "RuntimeError", status |-> 0,
      detail |-> "LaTeX did not produce resume.pdf"]}

\* C1: render_and_compile_one_page returns document bytes only from a compile that
\* measured at most one page, and they are the bytes of that compile; when the call
\* has ended without a compile or template error and none of its compiles measured
\* at most one page, it has raised HTTP 400 "Content could not be constrained to one
\* page." -- a multi-page document is never returned as a success.
OnePageOrFailure ==
    /\ fret.kind = "bytes" =>
          /\ fret.pdf.pages <= 1
          /\ fret.pdf.n = fcompiles
          /\ fmeasured # << >> /\ fmeasured[Len(fmeasured)] = fret.pdf.pages
          /\ fret.pdf.of = ftex
    /\ (/\ fpc \in {"accepted", "rejected"}
        /\ \A i \in 1..Len(fmeasured) : fmeasured[i] > 1)
       => /\ fpc = "rejected"
          /\ fret = [kind |-> "raise", exc |-> "HTTPException", status |-> 400,
                     detail |-> "Content could not be constrained to one page."]
    /\ fpc = "rejected" => \A i \in 1..Len(fmeasured) : fmeasured[i] > 1
\* bytes returned by the first ultra-squeeze compile, after four two-page compiles
OnePageOrFailureWitness ==
    /\ fpc = "accepted"
    /\ fret.kind = "bytes"
    /\ fmeasured = <<2, 2, 2, 2, 1>>
    /\ fshrinks = <<1, 2, 3, 4, 5>>

\* C2: render_and_compile_one_page makes at most 7 compiler calls (4 standard passes
\* and 3 ultra-squeeze iterations) and, every compiler call returning, always ends:
\* with bytes returned (accepted) or with an error raised.
FitLoopBounded ==
    /\ [](fcompiles <= 7)
    /\ <>(fpc \in {"accepted", "rejected", "failed"})
    /\ [](fpc \in {"accepted", "rejected", "failed"} =>
             (fret.kind = "bytes" <=> fpc = "accepted") /\ fret.kind # "none")
\* the call that used all seven compiles and was rejected
FitLoopBoundedWitness ==
    /\ fpc = "rejected"
    /\ fcompiles = 7
    /\ Len(fmeasured) = 7
    /\ fultra = 3

\* C3: a compile step that fails (engine missing, non-zero exit, no PDF produced) ends
\* the call at once with that error: a step that calls the compiler and gets no page
\* count leaves the call failed with a compile error, and once the call has failed no
\* reduction is applied, the compiler is not called again and the error stays.
CompileFailureAborts ==
    [][ /\ (fcompiles' # fcompiles /\ fmeasured' = fmeasured) =>
              (fpc' = "failed" /\ fret' \in CompileErrors
               /\ fworking' = fworking /\ fshrinks' = fshrinks)
        /\ fpc = "failed" =>
              (fcompiles' = fcompiles /\ fruns' = fruns /\ fshrinks' = fshrinks
               /\ fworking' = fworking /\ fret' = fret /\ fpc' = fpc) ]_vars
\* a compile that failed in the ultra-squeeze loop, after reductions had been applied
CompileFailureAbortsWitness ==
    /\ fpc = "failed"
    /\ fret \in CompileErrors
    /\ fret.exc = "RuntimeError"
    /\ fcompiles = 5
    /\ fshrinks = <<1, 2, 3, 4, 5>>

-----------------------------------------------------------------------------
(* Properties of compress_payload_for_one_page, checked under SpecCompress *)

\* the identity of a certification: (name lower-cased, issuer lower-cased, date, link)
CertIdentity(c) == <<Lower(c.name), Lower(c.issuer), c.date, c.link>>
\* the certifications of record r as the dedup loop meets them: normalized, cleaned,
\* the empty ones left out
CertCandidatesOf(d) ==
    SelectSeq([i \in 1..Len(Get(d, "certifications")) |->
                  clean_cert(normalize_cert_item(EntryJ(Get(d, "certifications")[i])))],
              LAMBDA c : ~cert_is_empty(c))
CertCandidates(r) == Bind(sanitize_struct(AsJson(r)), CertCandidatesOf)
\* of a list of certifications, those whose identity no earlier one has
FirstOccurrences(cs) ==
    LET ix == SelectSeq([i \in 1..Len(cs) |-> i],
                  LAMBDA i : \A j \in 1..(i - 1) : CertIdentity(cs[j]) # CertIdentity(cs[i]))
    IN  [j \in 1..Len(ix) |-> cs[ix[j]]]
IsPrefix(xs, ys) == Len(xs) <= Len(ys) /\ xs = SubSeq(ys, 1, Len(xs))

\* C7: compress_payload_for_one_page is idempotent: compressing the compressed record
\* gives the compressed record again, for every sanitized record.
CompressIdempotent == ppc = "twice" => pout.c2 = pout.c1

\* C9: in the output of compress_payload_for_one_page every certification identity
\* (name lower-cased, issuer lower-cased, date, link) occurs at most once, and the
\* certification kept for an identity is the first one of the input that has it.
CertKeysUnique ==
    ppc \in {"once", "twice"} =>
        LET out == pout.c1["certifications"]
        IN  /\ \A i, j \in 1..Len(out) :
                  CertIdentity(out[i]) = CertIdentity(out[j]) => i = j
            /\ IsPrefix(out, FirstOccurrences(CertCandidates(pout.r)))
\* a compressed record whose input held the same identity more than once
CertKeysUniqueWitness ==
    /\ ppc = "once"
    /\ Len(pout.c1["certifications"]) >= 2
    /\ Len(FirstOccurrences(CertCandidates(pout.r))) < Len(CertCandidates(pout.r))

\* the band of an approximate character count
BandOf(n) == IF n < 1650 THEN "short" ELSE IF n >= 2900 THEN "long" ELSE "mid"
CapsOf(band) ==
    CASE band = "short" -> [bullets_exp |-> 4, bullets_proj |-> 4, exp |-> 4, proj |-> 3,
                            edu |-> 2, cert |-> 6]
      [] band = "mid"   -> [bullets_exp |-> 3, bullets_proj |-> 3, exp |-> 3, proj |-> 2,
                            edu |-> 2, cert |-> 6]
      [] band = "long"  -> [bullets_exp |-> 2, bullets_proj |-> 2, exp |-> 3, proj |-> 2,
                            edu |-> 2, cert |-> 5]
BulletsWithin(entries, cap) ==
    \A i \in 1..Len(entries) :
        /\ Len(entries[i]["bullets"]) <= cap
        /\ \A j \in 1..Len(entries[i]["bullets"]) : Strip(entries[i]["bullets"][j]) # << >>
WithinCaps(out, caps) ==
    /\ Len(out["experience"]) <= caps.exp
    /\ Len(out["projects"]) <= caps.proj
    /\ Len(out["education"]) <= caps.edu
    /\ Len(out["certifications"]) <= caps.cert
    /\ BulletsWithin(out["experience"], caps.bullets_exp)
    /\ BulletsWithin(out["projects"], caps.bullets_proj)

\* C10: the output of compress_payload_for_one_page respects the caps of the band of
\* its input's approximate character count (short < 1650, mid, long >= 2900): bullets
\* per experience / project entry <= 4/4, 3/3, 2/2, experience / projects / education /
\* certifications counts <= 4/3/2/6, 3/2/2/6, 3/2/2/5, and no bullet is empty.
BandCapsRespected ==
    ppc \in {"once", "twice"} =>
        WithinCaps(pout.c1, CapsOf(BandOf(approx_char_count(pout.r))))
\* a long-band input with more entries and more bullets than the long band allows,
\* one of its bullets blank
BandCapsWitness ==
    /\ ppc = "once"
    /\ approx_char_count(pout.r) >= 2900
    /\ Len(pout.r["experience"]) > 3
    /\ \E i \in 1..Len(pout.r["experience"]) :
          /\ Len(pout.r["experience"][i]["bullets"]) > 2
          /\ \E j \in 1..Len(pout.r["experience"][i]["bullets"]) :
                Strip(pout.r["experience"][i]["bullets"][j]) = << >>
    /\ Len(pout.c1["experience"]) = 3

-----------------------------------------------------------------------------
(* Properties of merge_structured, checked under SpecMerge *)

\* C8: when the baseline has at least one experience entry and the optimized record
\* has none, the experience of the merged record is the sanitized baseline's
\* experience list, entry for entry in the same order, and it is not empty.
BaselineExperienceKept ==
    (/\ ppc = "merged"
     /\ Len(pout.orig["experience"]) >= 1
     /\ Len(pout.opt["experience"]) = 0)
    => /\ pout.merged["experience"] = pout.orig["experience"]
       /\ pout.merged["experience"] # << >>
\* a merge of a two-entry baseline with an optimized record whose experience held
\* only entries that sanitizing drops
BaselineExperienceKeptWitness ==
    /\ ppc = "merged"
    /\ pin.kind = "strings"
    /\ Len(pout.orig["experience"]) = 2
    /\ Len(pout.opt["experience"]) = 0
    /\ Len(pout.merged["experience"]) = 2

\* C15: the merged skills are the optimized record's unless the optimized list is
\* shorter than half the baseline's and the baseline has at least 3 skills, and then
\* they are the baseline's; so a non-empty optimized list is kept whenever the baseline
\* has fewer than 3 skills.
OptimizedSkillsKept ==
    ppc = "merged" =>
        pout.merged["skills"] =
            IF /\ 2 * Len(pout.opt["skills"]) < Len(pout.orig["skills"])
               /\ Len(pout.orig["skills"]) >= 3
            THEN pout.orig["skills"]
            ELSE pout.opt["skills"]

\* entry i of merged is entry i of opt, with a field taken from a baseline entry of the
\* same key only where the field is one of `inherited` and is empty in opt
OptimizedWins(orig, opt, merged, K(_), inherited) ==
    /\ Len(merged) >= Len(opt)
    /\ \A i \in 1..Len(opt) :
          \A f \in DOMAIN opt[i] :
              IF opt[i][f] = << >> /\ f \in inherited /\ InMap(orig, K, K(opt[i]))
              THEN \E j \in 1..Len(orig) :
                      K(orig[j]) = K(opt[i]) /\ merged[i][f] = orig[j][f]
              ELSE merged[i][f] = opt[i][f]
\* the entries of merged after the optimized ones
AppendedTo(opt, merged) == SubSeq(merged, Len(opt) + 1, Len(merged))
\* they are the baseline entries whose key is the key of no optimized entry
BaselineOnlyAppended(orig, opt, merged, K(_)) ==
    AppendedTo(opt, merged) = SelectSeq(orig, LAMBDA o : ~InMap(opt, K, K(o)))
\* they are one entry for each baseline key that is the key of no optimized entry: the
\* last baseline entry of that key, at the place of the first
BaselineKeysAppended(orig, opt, merged, K(_)) ==
    LET firsts == SelectSeq([j \in 1..Len(orig) |-> j],
                      LAMBDA j : /\ ~InMap(opt, K, K(orig[j]))
                                 /\ \A h \in 1..(j - 1) : K(orig[h]) # K(orig[j]))
    IN  AppendedTo(opt, merged) =
            [x \in 1..Len(firsts) |-> MapAt(orig, K, K(orig[firsts[x]]))]
NoKeyLost(orig, merged, K(_)) ==
    \A j \in 1..Len(orig) : InMap(merged, K, K(orig[j]))
EduInherited  == {"details", "graduation_year", "location"}
ProjInherited == {"bullets", "summary", "link"}

\* C16 as stated: merged education and projects hold the optimized entries first, each
\* with a baseline field only where its own is empty, then every baseline entry whose
\* key is the key of no optimized entry; no baseline key is lost.
KeyedUnionOfEntries ==
    ppc = "merged" =>
        /\ OptimizedWins(pout.orig["education"], pout.opt["education"],
                         pout.merged["education"], key_edu, EduInherited)
        /\ OptimizedWins(pout.orig["projects"], pout.opt["projects"],
                         pout.merged["projects"], key_proj, ProjInherited)
        /\ BaselineOnlyAppended(pout.orig["education"], pout.opt["education"],
                                pout.merged["education"], key_edu)
        /\ BaselineOnlyAppended(pout.orig["projects"], pout.opt["projects"],
                                pout.merged["projects"], key_proj)
        /\ NoKeyLost(pout.orig["education"], pout.merged["education"], key_edu)
        /\ NoKeyLost(pout.orig["projects"], pout.merged["projects"], key_proj)

\* C16 as the code has it: the same, except that of the baseline projects whose key is
\* the key of no optimized project one is appended for each key, the last of that key.
KeyedUnionOfKeys ==
    ppc = "merged" =>
        /\ OptimizedWins(pout.orig["education"], pout.opt["education"],
                         pout.merged["education"], key_edu, EduInherited)
        /\ OptimizedWins(pout.orig["projects"], pout.opt["projects"],
                         pout.merged["projects"], key_proj, ProjInherited)
        /\ BaselineOnlyAppended(pout.orig["education"], pout.opt["education"],
                                pout.merged["education"], key_edu)
        /\ BaselineKeysAppended(pout.orig["projects"], pout.opt["projects"],
                                pout.merged["projects"], key_proj)
        /\ NoKeyLost(pout.orig["education"], pout.merged["education"], key_edu)
        /\ NoKeyLost(pout.orig["projects"], pout.merged["projects"], key_proj)

\* a merge of a baseline with two entries of one key: the optimized project P1 has
\* inherited the baseline's bullets, both baseline education entries of the key were
\* appended and one of the two projects
KeyedUnionOfKeysWitness ==
    /\ ppc = "merged"
    /\ pin.dup /\ pin.n = 2 /\ pin.b = 3
    /\ Len(pout.opt["projects"]) = 2
    /\ pout.opt["projects"][1]["bullets"] = << >>
    /\ pout.merged["projects"][1]["bullets"] = pout.orig["projects"][1]["bullets"]
    /\ pout.merged["projects"][1]["bullets"] # << >>
    /\ Len(pout.merged["projects"]) = 4
    /\ Len(pout.merged["education"]) = 4

-----------------------------------------------------------------------------
(* Properties of the workspace store *)

\* a request at one of these statements has written current.meta.json
AfterWrite == {"autosave", "finish"}
Guarded(c) == wloc[c].op \in {"save", "patch"} /\ wloc[c].hdr # << >>

\* C4: of two workspace_save / resume_patch requests in flight that carry the same
\* X-Resume-Rev, at most one gets past the revision check and writes the workspace.
OneWriterPerRevision ==
    \A c, d \in Clients :
        (c # d /\ Guarded(c) /\ Guarded(d) /\ wloc[c].hdr = wloc[d].hdr)
            => ~(wpc[c] \in AfterWrite /\ wpc[d] \in AfterWrite)

\* C5: every write of current.meta.json leaves the stored rev strictly greater than
\* the rev stored immediately before that write.
RevStrictlyIncreasing ==
    [][\A c \in Clients :
          (wpc[c] = "w_meta" /\ wpc'[c] # "w_meta")
              => read_current(wdata', wmeta').rev > read_current(wdata, wmeta).rev]_vars

VersionRewritten(v) ==
    wvfiles[v] # << >> /\ wvfiles'[v] # << >> /\ wvfiles'[v] # wvfiles[v]

\* C20 as stated: the content stored under a version id is changed by no step; the
\* id is stored until the version is deleted.
VersionImmutable ==
    [][\A v \in Vids : wvfiles[v] # << >> => wvfiles'[v] \in {wvfiles[v], << >>}]_vars

\* C20 as the code has it: the content stored under a version id is replaced only by
\* overwrite_version, called by a client or by resume_patch for the selected version
\* in overwrite_version mode; no other step changes it.
VersionChangedByOverwriteOnly ==
    [][\A v \in Vids :
          VersionRewritten(v) =>
              \/ /\ wstarted' = wstarted + 1
                 /\ wpc' = wpc
                 /\ \E p \in 1..Len(VersionPayloads) :
                       /\ normalize_resume(VersionPayloads[p]).ok
                       /\ wvfiles'[v] = <<normalize_resume(VersionPayloads[p]).doc>>
              \/ \E c \in Clients :
                    /\ wpc[c] = "autosave"
                    /\ wloc[c].op = "patch"
                    /\ wloc[c].mode = "overwrite_version"
                    /\ wloc[c].sel = v
                    /\ wvfiles'[v] = <<wloc[c].doc>>]_vars

\* version v1 was selected in overwrite_version mode, and a patch has replaced its
\* content with the patched document, which is the current workspace now
VersionChangedByOverwriteOnlyWitness ==
    /\ wvfiles["v1"] # << >>
    /\ wvfiles["v1"] # SelectedStore.vfiles["v1"]
    /\ wvfiles["v1"] = wdata
    /\ wmeta # << >>
    /\ wmeta[1].selectedVersionId = "v1"
    /\ wmeta[1].autosaveMode = "overwrite_version"
    /\ \A c \in Clients : wpc[c] = "idle"

-----------------------------------------------------------------------------
(* Properties of enforce_section_order *)

CanonicalSections == {"summary", "education", "projects", "skills", "certifications"}
SeqRange(xs) == {xs[i] : i \in 1..Len(xs)}

\* C11: enforce_section_order returns a record for every record, applying it to its
\* own output changes nothing, its section_order names only the five canonical
\* sections, and each of the five is a key of the result.
EnforceIdempotentTotal ==
    /\ ppc \in {"enforced", "enforced_twice"} =>
          /\ SeqRange(pout.e1["section_order"]) \subseteq CanonicalSections
          /\ CanonicalSections \subseteq SeqRange(pout.e1["section_order"])
          /\ CanonicalSections \subseteq DOMAIN pout.e1
    /\ ppc = "enforced_twice" => pout.e2 = pout.e1

\* an empty record that carried a section_order naming unrendered sections has been
\* enforced twice
EnforceIdempotentTotalWitness ==
    /\ ppc = "enforced_twice"
    /\ pin.keys = {}
    /\ pin.summary = "absent"
    /\ pin.order = "foreign"
    /\ pout.e2["section_order"] = WANTED_SECTION_ORDER
    /\ pout.e2["show_summary"] = FALSE

-----------------------------------------------------------------------------
(* Properties of expand_sparse_content *)

\* the bullet target of the band of record r (none in the long band)
ExpandTarget(r) ==
    IF approx_char_count(r) < SHORT_MAX THEN 4
    ELSE IF approx_char_count(r) < LONG_MIN THEN 3
    ELSE 0
\* entry i of section k keeps its bullets as a prefix, and keeps them as they are
\* when it had the target number already
BulletsKept(before, after, target) ==
    /\ Len(after) >= Len(before)
    /\ \A i \in 1..Len(before) :
          /\ IsPrefix(before[i]["bullets"], after[i]["bullets"])
          /\ Len(after[i]["bullets"]) >= Len(before[i]["bullets"])
          /\ Len(before[i]["bullets"]) >= target
                => after[i]["bullets"] = before[i]["bullets"]

\* C12: for every reply of the model, the bullets an experience or project entry had
\* before expand_sparse_content are a prefix of those it has after, and an entry that
\* had the band's target number of bullets (4 short, 3 mid) keeps them unmodified.
BulletsMonotone ==
    ppc = "expanded" =>
        /\ BulletsKept(pout.r["experience"], pout.x1["experience"], ExpandTarget(pout.r))
        /\ BulletsKept(pout.r["projects"], pout.x1["projects"], ExpandTarget(pout.r))

\* a short record whose entries had two bullets and now have four, the first two as
\* they were
BulletsMonotoneWitness ==
    /\ ppc = "expanded"
    /\ pin.n = 1 /\ pin.b = 2 /\ pin.target = 0
    /\ Len(pout.x1["experience"][1]["bullets"]) = 4
    /\ Len(pout.x1["projects"][1]["bullets"]) = 4
    /\ SubSeq(pout.x1["experience"][1]["bullets"], 1, 2) = pout.r["experience"][1]["bullets"]

\* every experience and project entry of r has the band's target number of bullets
ToppedUp(r) ==
    /\ r["experience"] # << >>
    /\ r["projects"] # << >>
    /\ \A k \in {"experience", "projects"} :
          \A i \in 1..Len(r[k]) : Len(r[k][i]["bullets"]) >= ExpandTarget(r)

\* C13: expand_sparse_content of a record whose entries are all topped up adds
\* nothing, whatever the model replies: the result is the record.
ToppedUpUnchanged ==
    (ppc = "expanded" /\ ToppedUp(pout.r)) => pout.x1 = pout.r

-----------------------------------------------------------------------------
(* Properties of sanitize_struct, checked under SpecSanitize *)

\* no entry of the list xs is empty or one of "none", "null", "n/a"
NoEmptyEntry(xs) ==
    \A i \in 1..Len(xs) : xs[i] \notin {<< >>, NoneWord, NullWord, NaWord}
ResumeRecordFields == ScalarKeys \cup EntryListKeys \cup TextListKeys

\* C18: after sanitize_struct no entry of skills, of the bullets of an experience or
\* project entry, of the details of an education entry or of publications is empty or
\* one of "none", "null", "n/a".
NoEmptyListEntries ==
    (ppc = "sanitized" /\ ~pout.raised) =>
        /\ NoEmptyEntry(pout.r["skills"])
        /\ NoEmptyEntry(pout.r["publications"])
        /\ \A k \in {"experience", "projects"} :
              \A i \in 1..Len(pout.r[k]) : NoEmptyEntry(pout.r[k][i]["bullets"])
        /\ \A i \in 1..Len(pout.r["education"]) :
              NoEmptyEntry(pout.r["education"][i]["details"])

\* C19: sanitize_struct of a mapping whose fields hold JSON values of any type does not
\* raise, and every field of a ResumeRecord is present in what it returns.
SanitizeTotal ==
    ppc = "sanitized" =>
        /\ ~pout.raised
        /\ ResumeRecordFields \subseteq DOMAIN pout.r

-----------------------------------------------------------------------------
(* Properties of the enrichment injectors, checked under SpecInject *)

\* the injector whose results are xs gave, applied twice, what it gave applied once
SameTwice(xs) == Len(xs) = 2 => xs[2] = xs[1]
\* every field of entry e that is not empty is the same in entry f
FieldsKept(e, f) ==
    \A k \in DOMAIN e : e[k] # << >> => (k \in DOMAIN f /\ f[k] = e[k])
\* the link of project i of the JSON record x
LinkOf(x, i) == ensure_text(JGet(x["projects"].v[i], "link"))

LinksAdditive ==
    LET before == Items(IF "links" \in DOMAIN pout.d THEN pout.d["links"] ELSE JNull)
    IN  \A x \in 1..Len(pout.links) : IsPrefix(before, pout.links[x]["links"].v)
LocationAdditive ==
    \A x \in 1..Len(pout.loc) :
        ("location" \in DOMAIN pout.d /\ Truthy(pout.d["location"]))
            => pout.loc[x]["location"] = pout.d["location"]
ProjectLinksAdditive ==
    \A x \in 1..Len(pout.plinks) :
        \A i \in 1..Len(pout.d["projects"].v) :
            LinkOf(pout.d, i) # << >> => LinkOf(pout.plinks[x], i) = LinkOf(pout.d, i)
CertsAdditive ==
    \A x \in 1..Len(pout.certs) :
        \A i \in 1..Len(pout.s["certifications"]) :
            FieldsKept(pout.s["certifications"][i], pout.certs[x]["certifications"][i])
EducationAdditive ==
    \A x \in 1..Len(pout.edu) :
        \A i \in 1..Len(pout.s["education"]) :
            FieldsKept(pout.s["education"][i], pout.edu[x]["education"][i])

\* C17: each of the five injectors gives, applied twice with the same raw text, the
\* record it gives applied once, and leaves every value that was not empty as it was.
InjectorsIdempotentAdditive ==
    ppc \in {"injected", "injected_twice"} =>
        /\ SameTwice(pout.links) /\ LinksAdditive
        /\ SameTwice(pout.loc) /\ LocationAdditive
        /\ SameTwice(pout.plinks) /\ ProjectLinksAdditive
        /\ SameTwice(pout.certs) /\ CertsAdditive
        /\ SameTwice(pout.edu) /\ EducationAdditive

-----------------------------------------------------------------------------
(* Properties of one optimize-and-render request, checked under SpecPipe *)

StageOrder ==
    <<"Sanitize", "Enrich", "Merge", "Expand", "Compress", "SkillRows", "EnforceOrder",
      "Fit">>
StageRank(stage) == CHOOSE i \in 1..Len(StageOrder) : StageOrder[i] = stage

\* C14: the stages of a request run in the order Sanitize, Enrich, Merge, Expand,
\* Compress, SkillRows, EnforceOrder, Fit, none before an earlier one of the list,
\* and each stage after the first is given the result of the stage run before it.
StagesInOrder ==
    \A i \in 2..Len(pout.log) :
        /\ StageRank(pout.log[i - 1].stage) <= StageRank(pout.log[i].stage)
        /\ pout.log[i].of = {i - 1}

-----------------------------------------------------------------------------
\* a row made of items of one list of the reply, whole and in order
RowFrom(row, items) ==
    \E k \in 0..Len(items) : row = comma_join(Take(NonEmpty(items), k))
ReplyLists(reply) == IF reply = << >> THEN NoRows ELSE reply[1]
ReplyItems(reply) ==
    SeqRange(ReplyLists(reply).languages) \cup SeqRange(ReplyLists(reply).tools_platforms)
        \cup SeqRange(ReplyLists(reply).concepts)

\* C21: when the skill-classification call fails or returns unparsable text the
\* three rows are empty and the skills the record had are kept, at most 12 of
\* them; in every case each row is made of items of the reply and each skill of
\* the flat list is an item of the reply or one of the skills the record had
\* (nothing comes from SEED_SKILLS).
SkillsKeptNeverSeeded ==
    ppc = "rowed" =>
        LET reply == SkillRowReplies[pin.reply]
            had   == SkillsRecord(pin).skills
        IN  /\ reply = << >> =>
                /\ pout.skills_row1 = << >> /\ pout.skills_row2 = << >>
                /\ pout.skills_row3 = << >>
                /\ pout.skills = Take(had, MAX_SKILLS_DEFAULT)
            /\ RowFrom(pout.skills_row1, ReplyLists(reply).languages)
            /\ RowFrom(pout.skills_row2, ReplyLists(reply).tools_platforms)
            /\ RowFrom(pout.skills_row3, ReplyLists(reply).concepts)
            /\ SeqRange(pout.skills) \subseteq ReplyItems(reply) \cup SeqRange(had)
\* the call failed on a record with more than 12 skills, which are kept capped
SkillsKeptNeverSeededWitness ==
    /\ ppc = "rowed"
    /\ SkillRowReplies[pin.reply] = << >>
    /\ pin.n > MAX_SKILLS_DEFAULT
    /\ Len(pout.skills) = MAX_SKILLS_DEFAULT
    /\ pout.skills_row1 = << >>

-----------------------------------------------------------------------------
\* the items of xs at the positions of K, in order
Picked(xs, K) == SelectSeq([i \in 1..Len(xs) |-> IF i \in K THEN <<xs[i]>> ELSE << >>],
                           LAMBDA c : c # << >>)
ItemsAt(xs, K) == [i \in 1..Len(Picked(xs, K)) |-> Picked(xs, K)[i][1]]

\* C24 (as stated): the row of _join_until(90, items) is the ", "-join of whole items in
\* their order, at most 90 characters long, and an item is left out only if adding it,
\* with its separator, to the items joined before it would exceed 90 characters.
JoinUntilGreedy ==
    ppc = "joined" =>
        LET items == JoinItems(pin)
        IN  \E K \in SUBSET (1..Len(items)) :
               /\ pout.row = comma_join(ItemsAt(items, K))
               /\ Len(pout.row) <= ROW_CHARS
               /\ \A i \in (1..Len(items)) \ K :
                     Len(comma_join(Append(ItemsAt(items, {j \in K : j < i}), items[i])))
                         > ROW_CHARS

\* C24 (amended): the row of _join_until(90, items) is the ", "-join of the longest
\* leading run of whole items whose join is at most 90 characters: an item is left out
\* only if adding it at its turn would exceed 90 characters or an item before it was
\* left out.
JoinUntilPrefix ==
    ppc = "joined" =>
        LET items == JoinItems(pin)
        IN  \E k \in 0..Len(items) :
               /\ pout.row = comma_join(Take(items, k))
               /\ Len(pout.row) <= ROW_CHARS
               /\ k < Len(items) => Len(comma_join(Take(items, k + 1))) > ROW_CHARS
\* an item that would fit is left out because the item before it did not fit
JoinUntilPrefixWitness ==
    /\ ppc = "joined"
    /\ pin = <<50, 50, 10>>
    /\ pout.row = Filled(50, "a")

-----------------------------------------------------------------------------
\* the first compile is of the record with no reduction applied
FirstCompileUnshrunk ==
    (fcompiles = 0 /\ fcompiles' = 1) =>
        ftex = enforce_section_order(fdata) /\ fshrinks = << >>
\* shrink pass k is applied only after the k-th compile measured more than one page
ShrinkFollowsCompile ==
    (fpc = "shrink" /\ fshrinks' # fshrinks) =>
        /\ fshrinks' = Append(fshrinks, fcompiles)
        /\ fcompiles \in 1..StdPasses
        /\ fpdf.n = fcompiles /\ fpdf.pages > 1
\* a record that a reduction has changed is rendered and compiled before the next
\* reduction is applied to it
ReducedIsCompiledFirst ==
    (fpc \in {"shrink", "squeeze"} /\ fshrinks' # fshrinks /\ fworking' # fworking) =>
        fpdf.n = fcompiles /\ fpdf.of = fworking
\* the bytes returned are those of the first compile that measured at most one page,
\* and nothing is done after it
ReturnsFirstFit ==
    /\ (fpc # "accepted" /\ fpc' = "accepted") =>
          /\ fret'.kind = "bytes" /\ fret'.pdf = fpdf
          /\ fpdf.n = fcompiles /\ fpdf.pages <= 1
          /\ \A i \in 1..(Len(fmeasured) - 1) : fmeasured[i] > 1
          /\ UNCHANGED <<fworking, ftex, fcompiles, fshrinks>>
    /\ fpc = "accepted" => UNCHANGED fitvars

\* C22: in render_and_compile_one_page the first compile is of the record with no
\* shrink applied, shrink pass k (1..4) is applied only after the k-th compile measured
\* more than one page, every shrunk record is rendered and compiled before a more
\* aggressive reduction is applied to it, and the loop returns the bytes of the first
\* compile that measured at most one page without any further shrink, render or compile.
ShrinkRenderCompileInTurn ==
    [][/\ FirstCompileUnshrunk
       /\ ShrinkFollowsCompile
       /\ ReducedIsCompiledFirst
       /\ ReturnsFirstFit]_vars

-----------------------------------------------------------------------------
\* C23: after shrink pass 3, and likewise after pass 4, has been applied and the section
\* order re-enforced, the record rendered in the next iteration of the fit loop has its
\* summary hidden (show_summary false, also with a non-empty summary) and no
\* certifications.
SummaryHiddenAfterPass3 ==
    (/\ fpc = "compile"
     /\ fshrinks # << >>
     /\ \/ fshrinks[Len(fshrinks)] = 3
        \/ fshrinks = <<1, 2, 3, 4, 5>> /\ fultra = 1)
    => /\ ftex["show_summary"] = FALSE
       /\ ftex["certifications"] = << >>

-----------------------------------------------------------------------------
\* C26: the fit loop accepts a compile as fitting only when the typesetting engine
\* reported a page count of at most 1: a compile whose output holds no page count that
\* can be parsed is not returned as a one-page document.
AcceptsReportedCountOnly ==
    fret.kind = "bytes" =>
        /\ fret.pdf.reported # << >>
        /\ fret.pdf.reported[1] <= 1

-----------------------------------------------------------------------------
SqueezedTwiceSame(r) ==
    Bind(ultra_squeeze_to_one_page(r), LAMBDA s : ultra_squeeze_to_one_page(s) = s)

\* C27: _ultra_squeeze_to_one_page is idempotent, squeeze(squeeze(r)) = squeeze(r), so
\* the second and third iterations of the ultra-squeeze loop render and compile the
\* record of the first iteration and reduce nothing further.
UltraSqueezeIdempotent ==
    /\ (fpc = "render" /\ fshrinks = << >>) => SqueezedTwiceSame(fdata)
    /\ fpc = "squeeze" => SqueezedTwiceSame(fworking)
    /\ (fpc = "compile" /\ fultra >= 2) => (ftex = fpdf.of /\ ftex = fworking)
\* the third iteration compiles the record the first one squeezed from a long summary
UltraSqueezeIdempotentWitness ==
    /\ fpc = "compile"
    /\ fultra = 3
    /\ fshrinks = <<1, 2, 3, 4, 5, 5, 5>>
    /\ ftex = fpdf.of
    /\ Len(fdata["summary"]) > 110
    /\ Len(ftex["summary"]) = 110
    /\ Len(ftex["education"]) = 1
    /\ Len(fdata["education"]) > 1

-----------------------------------------------------------------------------
RECURSIVE SlotsOf(_, _)
\* each segment in exactly one slot: the first with a year is the date, the first that
\* starts with http(s):// the link, the first with neither the issuer, any other one
\* joins the description
SlotsOf(parts, acc) ==
    IF parts = << >> THEN acc
    ELSE LET p == Head(parts)
             nxt ==
               IF HasYear(p) /\ acc.date = << >>
               THEN [acc EXCEPT !.date = FirstYear(p)]
               ELSE IF StartsWithHttp(p) /\ acc.link = << >>
               THEN [acc EXCEPT !.link = p]
               ELSE IF ~HasYear(p) /\ ~StartsWithHttp(p) /\ acc.issuer = << >>
               THEN [acc EXCEPT !.issuer = p]
               ELSE [acc EXCEPT !.desc = IF acc.desc = << >> THEN p
                                          ELSE acc.desc \o <<";", " ">> \o p]
         IN  SlotsOf(Tail(parts), nxt)

\* C25: normalize_cert_item on a separator-delimited string takes the first segment as
\* the name and puts each further segment, in order, in exactly one slot: the first
\* segment with a year 1900-2099 sets the date, the first that starts with http(s)://
\* the link, the first with neither the issuer, and every other segment is appended to
\* the description joined by "; "; "AWS Certified | Amazon | 2023 |
\* https://aws.example/cert" gives that name, issuer, date and link and no description.
CertSegmentsClassified ==
    ppc = "cert_item" =>
        LET slots == SlotsOf(Tail(CertParts(pin)),
                             [issuer |-> << >>, date |-> << >>, link |-> << >>,
                              desc |-> << >>])
        IN  /\ pout.name = CertName
            /\ pout.date = slots.date
            /\ pout.link = slots.link
            /\ pout.issuer = slots.issuer
            /\ pout.description = slots.desc

-----------------------------------------------------------------------------
IdentityFields == {"first_name", "last_name", "email", "phone", "summary"}

\* C30: merge_structured never loses identity data: when the optimized record is empty
\* or lacks first_name, last_name, email, phone or summary (a failed optimized
\* extraction is merged as {}), the merged record carries the baseline's value of that
\* field.
IdentityKept ==
    ppc = "merged" =>
        \A f \in IdentityFields :
            Get(pout.opt, f) = << >> => Get(pout.merged, f) = Get(pout.orig, f)

-----------------------------------------------------------------------------
\* C29: in every state reached through the workspace and version operations of one user
\* (save, select, mode, patch, save_version, delete_version, overwrite, rename) the
\* workspace's selectedVersionId is null or the id of a version that exists in the
\* user's store.
SelectionExists ==
    LET sel == read_current(wdata, wmeta).selectedVersionId
    IN  sel = NoVid \/ wvfiles[sel] # << >>

-----------------------------------------------------------------------------
\* C28: resume_patch is all-or-nothing with respect to the workspace: whenever the
\* request ends in an error response (autosaveMode is overwrite_version and the file of
\* the selected version no longer exists, rendering or compilation fails, ...) the stored
\* workspace data and revision are those the request found.
PatchAllOrNothing ==
    [][\A c \in Clients :
          (/\ wpc[c] # "idle" /\ wpc'[c] = "idle"
           /\ wloc[c].op = "patch"
           /\ wresp'.status >= 400)
          => /\ read_current(wdata', wmeta').rev = wloc[c].ws_state.rev
             /\ read_current(wdata', wmeta').data = wloc[c].ws_state.data]_vars

=============================================================================
